---------------------------- MODULE Spec2Model ----------------------------
(***************************************************************************)
(* A model of the ArduPilot filesystem backends                            *)
(*   libraries/AP_Filesystem/AP_Filesystem_FATFS.cpp                       *)
(*   libraries/AP_Filesystem/AP_Filesystem_ROMFS.cpp                       *)
(*                                                                         *)
(* Every FATFS public operation takes the recursive semaphore `sem` for    *)
(* its whole body, so at most one FATFS operation is in progress: its      *)
(* activation record is the variable `call`.  An operation is a sequence   *)
(* of steps, one per backend call (f_open, f_read, sdcard_retry, ...),     *)
(* whose result the FatFs library and the sdcard driver decide: each step  *)
(* draws it from the result codes the library can return.                  *)
(***************************************************************************)
EXTENDS Integers, Sequences, FiniteSets, TLC

(***************************************************************************)
(* Bounds of the model.  MAX_FILES and MAX_IO_SIZE are the source's names, *)
(* scaled down (the source has 16 and 4096).                               *)
(***************************************************************************)
MAX_FILES == 2
MAX_IO_SIZE == 2
MaxCount == 3
MaxOfs == 3
MaxDirs == 1
max_open_file == 2
max_open_dir == 2
NThreads == 2
MaxRomOfs == 4
MaxSect == 1
MaxSeek == 1
MaxResult == 21

(***************************************************************************)
(* FRESULT codes of ff.h, with the numbers the source's comments give.     *)
(***************************************************************************)
FR_OK == 0
FR_DISK_ERR == 1
FR_INT_ERR == 2
FR_NOT_READY == 3
FR_NO_FILE == 4
FR_NO_PATH == 5
FR_INVALID_NAME == 6
FR_DENIED == 7
FR_EXIST == 8
FR_INVALID_OBJECT == 9
FR_WRITE_PROTECTED == 10
FR_INVALID_DRIVE == 11
FR_NOT_ENABLED == 12
FR_NO_FILESYSTEM == 13
FR_MKFS_ABORTED == 14
FR_TIMEOUT == 15
FR_LOCKED == 16
FR_NOT_ENOUGH_CORE == 17
FR_TOO_MANY_OPEN_FILES == 18
FR_INVALID_PARAMETER == 19

\* Every value a FRESULT can hold in the model: the codes above and those
\* a later version of the library may add.
FResults == 0 .. MaxResult

\* The result codes the model's backend draws from: success, the device
\* error, and one error that is not a device error.
BackendResults == {FR_OK, FR_DISK_ERR, FR_NO_FILE}

\* errno values, by name.
NoError == "0"
EIO == "EIO"
ENOENT == "ENOENT"
EINVAL == "EINVAL"
ENOMEM == "ENOMEM"
EROFS == "EROFS"
ENFILE == "ENFILE"
EBADF == "EBADF"
EBADMSG == "EBADMSG"
EPERM == "EPERM"
EBUSY == "EBUSY"
EACCES == "EACCES"
EEXIST == "EEXIST"
ENXIO == "ENXIO"
ENOSPC == "ENOSPC"
EMFILE == "EMFILE"

FA_READ == "FA_READ"
FA_WRITE == "FA_WRITE"
FA_CREATE_ALWAYS == "FA_CREATE_ALWAYS"
FA_OPEN_ALWAYS == "FA_OPEN_ALWAYS"

O_RDONLY == "O_RDONLY"
O_WRONLY == "O_WRONLY"
O_RDWR == "O_RDWR"

Paths == {"a", "b"}
NoName == "<null>"

Slots == 0 .. (MAX_FILES - 1)

\* A FIL as calloc or memset leaves it: no filesystem object, offset 0.
ZeroFIL == [fs |-> FALSE, fptr |-> 0, flag |-> {}]

\* An empty entry of file_table.  An entry holds the name and the FIL;
\* acc remembers the access bits its open asked for.
NULL == [name |-> NoName, fobj |-> ZeroFIL, acc |-> {}]

Min(a, b) == IF a < b THEN a ELSE b

(***************************************************************************)
(* fatfs_to_errno                                                          *)
(***************************************************************************)
\* The switch without its last line: a code it does not list gives 0.
fatfs_to_errno_NoDefault(Result) ==
    CASE Result = FR_DISK_ERR -> EIO
      [] Result = FR_INT_ERR -> EPERM
      [] Result = FR_NOT_READY -> EBUSY
      [] Result = FR_NO_FILE -> ENOENT
      [] Result = FR_NO_PATH -> ENOENT
      [] Result = FR_INVALID_NAME -> EINVAL
      [] Result = FR_DENIED -> EACCES
      [] Result = FR_EXIST -> EEXIST
      [] Result = FR_INVALID_OBJECT -> EINVAL
      [] Result = FR_WRITE_PROTECTED -> EROFS
      [] Result = FR_INVALID_DRIVE -> ENXIO
      [] Result = FR_NOT_ENABLED -> ENOSPC
      [] Result = FR_NO_FILESYSTEM -> ENXIO
      [] Result = FR_MKFS_ABORTED -> EINVAL
      [] Result = FR_TIMEOUT -> EBUSY
      [] Result = FR_LOCKED -> EBUSY
      [] Result = FR_NOT_ENOUGH_CORE -> ENOMEM
      [] Result = FR_TOO_MANY_OPEN_FILES -> EMFILE
      [] Result = FR_INVALID_PARAMETER -> EINVAL
      [] OTHER -> NoError

fatfs_to_errno(Result) ==
    CASE Result = FR_OK -> NoError
      [] Result = FR_DISK_ERR -> EIO
      [] Result = FR_INT_ERR -> EPERM
      [] Result = FR_NOT_READY -> EBUSY
      [] Result = FR_NO_FILE -> ENOENT
      [] Result = FR_NO_PATH -> ENOENT
      [] Result = FR_INVALID_NAME -> EINVAL
      [] Result = FR_DENIED -> EACCES
      [] Result = FR_EXIST -> EEXIST
      [] Result = FR_INVALID_OBJECT -> EINVAL
      [] Result = FR_WRITE_PROTECTED -> EROFS
      [] Result = FR_INVALID_DRIVE -> ENXIO
      [] Result = FR_NOT_ENABLED -> ENOSPC
      [] Result = FR_NO_FILESYSTEM -> ENXIO
      [] Result = FR_MKFS_ABORTED -> EINVAL
      [] Result = FR_TIMEOUT -> EBUSY
      [] Result = FR_LOCKED -> EBUSY
      [] Result = FR_NOT_ENOUGH_CORE -> ENOMEM
      [] Result = FR_TOO_MANY_OPEN_FILES -> EMFILE
      [] Result = FR_INVALID_PARAMETER -> EINVAL
      [] OTHER -> EBADMSG

(***************************************************************************)
(* RETRY_ALLOWED: not in the main thread, or not armed.                    *)
(***************************************************************************)
RETRY_ALLOWED_Always(in_main_thread, soft_armed) == TRUE

RETRY_ALLOWED(in_main_thread, soft_armed) ==
    (~in_main_thread) \/ (~soft_armed)

(***************************************************************************)
(* The handle table.                                                       *)
(***************************************************************************)
Occupied(tab) == {i \in Slots : tab[i] # NULL}

Names(tab) == [i \in Slots |-> tab[i].name]

\* The scan of new_file_descriptor: the first index whose entry is NULL,
\* MAX_FILES when there is none.
FirstFree_Last(tab) ==
    IF \E i \in Slots : tab[i] = NULL
    THEN CHOOSE i \in Slots : tab[i] = NULL /\ \A j \in Slots : tab[j] = NULL => j <= i
    ELSE MAX_FILES

FirstFree_Wrap(tab) ==
    IF \E i \in Slots : tab[i] = NULL
    THEN CHOOSE i \in Slots : tab[i] = NULL /\ \A j \in Slots : j < i => tab[j] # NULL
    ELSE 0

FirstFree(tab) ==
    IF \E i \in Slots : tab[i] = NULL
    THEN CHOOSE i \in Slots : tab[i] = NULL /\ \A j \in Slots : j < i => tab[j] # NULL
    ELSE MAX_FILES

ValidFileno_NoNull(tab, fileno) == fileno \in Slots

\* fileno_to_stream: in range and not NULL.
ValidFileno(tab, fileno) == fileno \in Slots /\ tab[fileno] # NULL

free_file_descriptor_Keep(tab, fileno) == tab

\* free_file_descriptor
free_file_descriptor(tab, fileno) ==
    IF ValidFileno(tab, fileno) THEN [tab EXCEPT ![fileno] = NULL] ELSE tab

VARIABLES
    file_table,       \* FATFS: the table of open files
    remount_needed,   \* FATFS: the static flag
    errno,            \* the caller's errno
    call,             \* FATFS: the operation holding sem, or the last one
    sem,              \* FATFS: who holds the semaphore
    ndirs,            \* FATFS: DIR_Wrapper objects allocated and not deleted
    format_status,    \* FATFS: the status of the format job
    worker,           \* FATFS: format_handler, the callback of the IO thread
    polled,           \* what get_format_status returned last
    file,             \* ROMFS: the table of open files
    rcall,            \* ROMFS: the last operation and what it returned
    dir,              \* ROMFS: the table of open directories
    thr,              \* ROMFS: the position of each calling thread
    record_sem        \* ROMFS: the semaphore of the tables, free or held

vars == <<file_table, remount_needed, errno, call, sem, ndirs,
          format_status, worker, polled, file, rcall, dir, thr, record_sem>>

\* What the file operations of FATFS leave alone.
others == <<format_status, worker, polled, file, rcall, dir, thr, record_sem>>

(***************************************************************************)
(* The activation record of a FATFS operation.  Besides the operation's    *)
(* locals it keeps what the operation did (the backend calls it made, the  *)
(* recoveries it ran), which the properties below read once it has         *)
(* returned.                                                               *)
(***************************************************************************)
NoSnap == [i \in Slots |-> 0]
NoOut == [i \in Slots |-> "none"]

Idle ==
    [op |-> "none", pc |-> "idle",
     fd |-> -1, path |-> NoName, modes |-> {}, append |-> FALSE,
     count |-> 0, bytes |-> 0, total |-> 0, n |-> 0, size |-> 0,
     res |-> FR_OK, ret |-> 0,
     \* the context RETRY_ALLOWED found, once it has been asked
     asked |-> FALSE, main |-> FALSE, armed |-> FALSE,
     \* remount_file_system in progress: where it returns to, its loop index,
     \* its outcome, the offsets and access bits it captured, what it did per slot
     rm_to |-> "idle", rm_i |-> 0, rm |-> "none",
     rm_pre |-> NoSnap, rm_flag |-> [i \in Slots |-> {}], rm_out |-> NoOut,
     rm_modes |-> [i \in Slots |-> {}],
     \* history of this call
     pre |-> [i \in Slots |-> NoName],   \* the stored names at entry
     entry_rn |-> FALSE,                 \* remount_needed at entry
     e_rm |-> "none",                    \* the entry recovery: none, ok, failed
     nback |-> 0,                        \* backend file calls of the operation
     nrm |-> 0,                          \* recoveries after an error in the call
     nretried |-> 0,                     \* backend calls repeated after one
     ndelay |-> 0,                       \* hal.scheduler->delay calls
     nchunk |-> 0,                       \* chunks of the read/write loop
     moved |-> << >>,                    \* the bytes each accepted chunk moved
     nreopen |-> 0,                      \* f_open calls of recoveries
     rm_failed |-> FALSE,                \* a recovery in the call failed
     safe_seen |-> FALSE]                \* mem_is_dma_safe returned true

InCall == call.pc \notin {"idle", "done"}

\* The operation returns: sem is released with it.
Return(c, r) ==
    [c EXCEPT !.pc = "done", !.ret = r,
              !.modes = {}, !.path = NoName,
              !.rm_to = "idle", !.rm_i = 0, !.rm = "none",
              !.rm_pre = NoSnap, !.rm_flag = [i \in Slots |-> {}],
              !.rm_out = NoOut, !.rm_modes = [i \in Slots |-> {}]]

\* The failure value of each operation: nullptr for opendir, false for
\* set_mtime, -1 otherwise.
FailValue(op) == IF op \in {"opendir", "set_mtime"} THEN 0 ELSE -1

Failed(c) == c.pc = "done" /\ c.ret = FailValue(c.op)

(***************************************************************************)
(* The format job and the ROMFS table, as they are before the first call.  *)
(***************************************************************************)
IDLE == "IDLE"
PENDING == "PENDING"
IN_PROGRESS == "IN_PROGRESS"
SUCCESS == "SUCCESS"
FAILURE == "FAILURE"

\* format_handler: where it is, whether format() has registered it with the
\* IO thread, and how its last run ended.
WorkerIdle == [pc |-> "idle", registered |-> FALSE, last |-> "none"]

RomSlots == 0 .. (max_open_file - 1)

\* The records of dir: the path of a record, NoName where it is nullptr.
DirSlots == 0 .. (max_open_dir - 1)

\* The threads that call into ROMFS, and a thread that is in no call.
Threads == 1 .. NThreads
\* Its locals, its errno, and what is known of the buffer it uses: data is
\* the pointer it loaded from the record, src says whether that buffer was
\* live, released or nullptr when it was used.
ThreadIdle == [op |-> "none", pc |-> "idle", fd |-> -1, count |-> 0, ret |-> -1,
               err |-> NoError, data |-> NoName, src |-> "none"]

\* A free record of the ROMFS table: no decompressed data.
RomFree == [data |-> NoName, size |-> 0, ofs |-> 0]

RomIdle == [op |-> "none", fd |-> -1, ret |-> 0, pre |-> {}]

Init ==
    /\ file_table = [i \in Slots |-> NULL]
    /\ remount_needed = FALSE
    /\ errno = NoError
    /\ call = Idle
    /\ sem = "free"
    /\ ndirs = 0
    /\ format_status = IDLE
    /\ worker = WorkerIdle
    /\ polled = "none"
    /\ file = [i \in RomSlots |-> RomFree]
    /\ rcall = RomIdle
    /\ dir = [i \in DirSlots |-> NoName]
    /\ thr = [t \in Threads |-> ThreadIdle]
    /\ record_sem = "free"


(***************************************************************************)
(* The FatFs library, as far as this layer relies on it.                   *)
(***************************************************************************)
\* f_open into a zeroed FIL: on success the object is attached, at offset
\* 0, and keeps the mode it was opened with; on failure it stays detached.
f_open(modes, res) ==
    IF res = FR_OK THEN [fs |-> TRUE, fptr |-> 0, flag |-> modes] ELSE ZeroFIL

\* A call on a FIL that is not attached fails in the library's validate().
OnObject(fobj, res) == IF fobj.fs THEN res ELSE FR_INVALID_OBJECT

\* f_read and f_write also refuse, with FR_DENIED and nothing moved, a FIL
\* whose mode lacks the access bit they need.
OnAccess(fobj, bit, res) ==
    IF ~fobj.fs THEN FR_INVALID_OBJECT
    ELSE IF bit \notin fobj.flag THEN FR_DENIED
    ELSE res

(***************************************************************************)
(* CHECK_REMOUNT / CHECK_REMOUNT_NULL at the entry of an operation: with   *)
(* remount_needed set, remount_file_system runs first.                     *)
(***************************************************************************)
CHECK_REMOUNT_Skip(c, rn, body) == [c EXCEPT !.pc = body]

CHECK_REMOUNT(c, rn, body) ==
    IF rn THEN [c EXCEPT !.pc = "remount", !.rm_to = "chk"]
    ELSE [c EXCEPT !.pc = body]

BodyPc(op) ==
    CASE op = "open" -> "open_alloc"
      [] op = "read" -> "read_body"
      [] op = "write" -> "write_body"
      [] op = "stat" -> "stat_body"
      [] op = "opendir" -> "opendir_body"
      [] op = "disk_free" -> "disk_free_body"
      [] op = "disk_space" -> "disk_space_body"

\* The activation record of an operation entering its body.
Enter(op) ==
    [Idle EXCEPT !.op = op, !.pre = Names(file_table), !.entry_rn = remount_needed]

ClearRm(c) ==
    [c EXCEPT !.rm_to = "idle", !.rm_i = 0, !.rm = "none",
              !.rm_pre = NoSnap, !.rm_flag = [i \in Slots |-> {}],
              !.rm_out = NoOut, !.rm_modes = [i \in Slots |-> {}]]

\* The second half of CHECK_REMOUNT: a failed recovery ends the operation
\* with EIO, a successful one lets it go on.
CheckRemountReturn ==
    /\ call.pc = "chk"
    /\ IF call.rm = "failed"
       THEN /\ errno' = EIO
            /\ call' = Return([call EXCEPT !.e_rm = "failed"], FailValue(call.op))
            /\ sem' = "free"
       ELSE /\ call' = [ClearRm(call) EXCEPT !.pc = BodyPc(call.op), !.e_rm = "ok"]
            /\ UNCHANGED <<errno, sem>>
    /\ UNCHANGED <<file_table, remount_needed, ndirs>>
    /\ UNCHANGED others

(***************************************************************************)
(* remount_file_system                                                     *)
(***************************************************************************)
\* The flag after sdcard_retry: set when it failed, cleared when it worked.
RemountFlag_Keep(ok, rn) == rn

RemountFlag(ok, rn) == ~ok

\* Lines 198-206: stop the card unless it is already stopped, retry the
\* mount.  sdcard_retry is the driver's: it succeeds or fails.
RemountRetry ==
    /\ call.pc = "remount"
    /\ \E ok \in BOOLEAN :
        /\ remount_needed' = RemountFlag(ok, remount_needed)
        /\ call' = IF ok THEN [call EXCEPT !.pc = "reopen", !.rm_i = 0]
                   ELSE [call EXCEPT !.pc = call.rm_to, !.rm = "failed"]
    /\ UNCHANGED <<file_table, errno, sem, ndirs>>
    /\ UNCHANGED others

\* The flags a slot is reopened with: its read/write bits, and
\* FA_OPEN_ALWAYS for a writer.
ReopenFlags(flag) ==
    LET flags == flag \cap {FA_READ, FA_WRITE}
    IN  IF FA_WRITE \in flags THEN flags \cup {FA_OPEN_ALWAYS} ELSE flags

\* Lines 212-225 for one entry: the offset is captured, the FIL zeroed and
\* opened again by name; when that worked, f_lseek goes back to the offset
\* (its result is not looked at).
Reopen_NoSeek(f, res, seek_ok) ==
    [f EXCEPT !.fobj = f_open(ReopenFlags(f.fobj.flag), res)]

Reopen_Free(f, res, seek_ok) ==
    IF res = FR_OK
    THEN [f EXCEPT !.fobj = [f_open(ReopenFlags(f.fobj.flag), res)
                              EXCEPT !.fptr = IF seek_ok THEN f.fobj.fptr ELSE 0]]
    ELSE NULL

Reopen(f, res, seek_ok) ==
    LET offset == f.fobj.fptr
        fh == f_open(ReopenFlags(f.fobj.flag), res)
    IN  IF res = FR_OK
        THEN [f EXCEPT !.fobj = [fh EXCEPT !.fptr = IF seek_ok THEN offset ELSE 0]]
        ELSE [f EXCEPT !.fobj = fh]

\* The entries the loop of lines 207-226 has still to visit.
ReopenTodo == {i \in Slots : i >= call.rm_i /\ file_table[i] # NULL}

RemountReopen ==
    /\ call.pc = "reopen"
    /\ ReopenTodo # {}
    /\ LET i == CHOOSE k \in ReopenTodo : \A j \in ReopenTodo : k <= j
       IN  \E res \in BackendResults, seek_ok \in BOOLEAN :
            /\ file_table' = [file_table EXCEPT ![i] = Reopen(file_table[i], res, seek_ok)]
            /\ call' = [call EXCEPT
                 !.rm_i = i + 1,
                 !.nreopen = @ + 1,
                 !.rm_pre[i] = file_table[i].fobj.fptr,
                 !.rm_flag[i] = file_table[i].fobj.flag,
                 !.rm_modes[i] = ReopenFlags(file_table[i].fobj.flag),
                 !.rm_out[i] = IF res # FR_OK THEN "openfail"
                               ELSE IF seek_ok THEN "ok" ELSE "seekfail"]
    /\ UNCHANGED <<remount_needed, errno, sem, ndirs>>
    /\ UNCHANGED others

\* Line 227: the loop is over, remount_file_system returns true.
RemountDone ==
    /\ call.pc = "reopen"
    /\ ReopenTodo = {}
    /\ call' = [call EXCEPT !.pc = call.rm_to, !.rm = "ok"]
    /\ UNCHANGED <<file_table, remount_needed, errno, sem, ndirs>>
    /\ UNCHANGED others

\* A step of remount_file_system is in progress.
InRemount == call.pc \in {"remount", "reopen"}

(***************************************************************************)
(* AP_Filesystem_FATFS::open                                               *)
(***************************************************************************)
\* The flags the callers of the model open with: read only; write only,
\* created and truncated; read and write, created, appending.
CallerFlags ==
    {[acc |-> O_RDONLY, creat |-> FALSE, trunc |-> FALSE, append |-> FALSE],
     [acc |-> O_WRONLY, creat |-> TRUE, trunc |-> TRUE, append |-> FALSE],
     [acc |-> O_RDWR, creat |-> TRUE, trunc |-> FALSE, append |-> TRUE]}

\* Lines 245-259.
OpenModes(flags) ==
    LET acc == CASE flags.acc = O_RDWR -> {FA_READ, FA_WRITE}
                 [] flags.acc = O_RDONLY -> {FA_READ}
                 [] OTHER -> {FA_WRITE}
    IN  IF flags.creat
        THEN IF flags.trunc THEN acc \cup {FA_CREATE_ALWAYS}
             ELSE acc \cup {FA_OPEN_ALWAYS}
        ELSE acc

OpenBegin(paths, flagset) ==
    /\ ~InCall
    /\ sem = "free"
    /\ \E pathname \in paths, flags \in flagset :
        call' = CHECK_REMOUNT(
                  [Enter("open") EXCEPT
                     !.path = pathname, !.modes = OpenModes(flags),
                     !.append = flags.append],
                  remount_needed, "open_alloc")
    /\ sem' = "op"
    /\ UNCHANGED <<file_table, remount_needed, errno, ndirs>>
    /\ UNCHANGED others

\* Lines 242 and 261-264: new_file_descriptor.  calloc and strdup can fail.
OpenAlloc ==
    /\ call.pc = "open_alloc"
    /\ LET i == FirstFree(file_table)
       IN  IF i = MAX_FILES
           THEN /\ errno' = ENFILE
                /\ call' = Return(call, -1)
                /\ sem' = "free"
                /\ UNCHANGED file_table
           ELSE \E mem_ok \in BOOLEAN :
                 IF mem_ok
                 THEN /\ file_table' = [file_table EXCEPT
                                          ![i] = [name |-> call.path, fobj |-> ZeroFIL,
                                                  acc |-> call.modes \cap {FA_READ, FA_WRITE}]]
                      /\ errno' = NoError
                      /\ call' = [call EXCEPT !.pc = "open_fopen", !.fd = i]
                      /\ UNCHANGED sem
                 ELSE /\ errno' = ENOMEM
                      /\ call' = Return(call, -1)
                      /\ sem' = "free"
                      /\ UNCHANGED file_table
    /\ UNCHANGED <<remount_needed, ndirs>>
    /\ UNCHANGED others

\* What follows a backend call that returned res: the single retry (a
\* delay where the operation has one, then remount_file_system) when res is
\* the disk error and the context allows it, else the evaluation of res.
AfterCall(c, res, main, armed, delay, retry_pc, fin_pc) ==
    IF res = FR_DISK_ERR
    THEN IF RETRY_ALLOWED(main, armed)
         THEN [c EXCEPT !.res = res, !.nback = @ + 1,
                        !.asked = TRUE, !.main = main, !.armed = armed,
                        !.ndelay = @ + (IF delay THEN 1 ELSE 0),
                        !.nrm = @ + 1, !.pc = "remount", !.rm_to = retry_pc]
         ELSE [c EXCEPT !.res = res, !.nback = @ + 1,
                        !.asked = TRUE, !.main = main, !.armed = armed,
                        !.pc = fin_pc]
    ELSE [c EXCEPT !.res = res, !.nback = @ + 1, !.pc = fin_pc]

\* What follows the call repeated after a recovery: its result is evaluated,
\* whatever it is (the retry is an if, not a loop).
AfterRetry_Loop(c, res, retry_pc, fin_pc) ==
    IF res = FR_DISK_ERR /\ RETRY_ALLOWED(c.main, c.armed)
    THEN [c EXCEPT !.res = res, !.nback = @ + 1, !.nretried = @ + 1,
                   !.nrm = @ + 1, !.pc = "remount", !.rm_to = retry_pc]
    ELSE [c EXCEPT !.res = res, !.nback = @ + 1, !.nretried = @ + 1, !.pc = fin_pc]

AfterRetry(c, res, retry_pc, fin_pc) ==
    [c EXCEPT !.res = res, !.nback = @ + 1, !.nretried = @ + 1, !.pc = fin_pc]

\* The context of the caller (in the main thread, armed): that of the call
\* once RETRY_ALLOWED has been asked, and not looked at when res is no
\* disk error.
Context(c, res, main, armed) ==
    IF res # FR_DISK_ERR THEN ~main /\ ~armed
    ELSE c.asked => (main = c.main /\ armed = c.armed)

\* Line 266-270: the first f_open.
OpenFopen ==
    /\ call.pc = "open_fopen"
    /\ \E res \in BackendResults, main \in BOOLEAN, armed \in BOOLEAN :
        /\ Context(call, res, main, armed)
        /\ file_table' = [file_table EXCEPT ![call.fd].fobj = f_open(call.modes, res)]
        /\ call' = AfterCall(call, res, main, armed, TRUE, "open_retry", "open_fin")
    /\ UNCHANGED <<remount_needed, errno, sem, ndirs>>
    /\ UNCHANGED others

\* Lines 270-272: after remount_file_system, f_open again when it worked.
OpenRetry ==
    /\ call.pc = "open_retry"
    /\ IF call.rm = "ok"
       THEN \E res \in BackendResults :
             /\ file_table' = [file_table EXCEPT ![call.fd].fobj = f_open(call.modes, res)]
             /\ call' = AfterRetry(ClearRm(call), res, "open_retry", "open_fin")
       ELSE /\ call' = [ClearRm(call) EXCEPT !.pc = "open_fin", !.rm_failed = TRUE]
            /\ UNCHANGED file_table
    /\ UNCHANGED <<remount_needed, errno, sem, ndirs>>
    /\ UNCHANGED others

SeekEnd_Start(fobj, f_size) == fobj

\* Line 281: f_lseek(fh, f_size(fh)) that returned FR_OK.
SeekEnd(fobj, f_size) == [fobj EXCEPT !.fptr = f_size]

\* Lines 274-292.  With O_APPEND the file is positioned at f_size(fh), the
\* size the library read from the directory entry (kept in the frame).
OpenFin ==
    /\ call.pc = "open_fin"
    /\ IF call.res # FR_OK
       THEN /\ errno' = fatfs_to_errno(call.res)
            /\ file_table' = free_file_descriptor(file_table, call.fd)
            /\ call' = Return(call, -1)
       ELSE IF call.append
       THEN \E res \in BackendResults, f_size \in 0 .. MaxOfs :
             IF res # FR_OK
             THEN /\ errno' = fatfs_to_errno(res)
                  /\ file_table' = free_file_descriptor(file_table, call.fd)
                  /\ call' = Return([call EXCEPT !.res = res, !.nback = @ + 2], -1)
             ELSE /\ file_table' = [file_table EXCEPT
                                      ![call.fd].fobj = SeekEnd(@, f_size)]
                  /\ call' = Return([call EXCEPT !.res = res, !.nback = @ + 1,
                                                 !.size = f_size],
                                    call.fd)
                  /\ UNCHANGED errno
       ELSE /\ call' = Return(call, call.fd)
            /\ UNCHANGED <<file_table, errno>>
    /\ sem' = "free"
    /\ UNCHANGED <<remount_needed, ndirs>>
    /\ UNCHANGED others

(***************************************************************************)
(* AP_Filesystem_FATFS::close                                              *)
(***************************************************************************)
Filenos == -1 .. MAX_FILES

\* f_close's result is reported, the entry is freed whatever it is.
Close(fds) ==
    /\ ~InCall
    /\ sem = "free"
    /\ \E fileno \in fds :
        LET c == [Enter("close") EXCEPT !.fd = fileno]
        IN  IF ~ValidFileno(file_table, fileno)
            THEN /\ errno' = EBADF
                 /\ call' = Return(c, -1)
                 /\ UNCHANGED file_table
            ELSE \E res \in BackendResults :
                  LET r == OnObject(file_table[fileno].fobj, res)
                  IN  /\ file_table' = free_file_descriptor(file_table, fileno)
                      /\ errno' = fatfs_to_errno(r)
                      /\ call' = Return([c EXCEPT !.res = r, !.nback = 1],
                                        IF r # FR_OK THEN -1 ELSE 0)
    /\ UNCHANGED <<remount_needed, sem, ndirs>>
    /\ UNCHANGED others

(***************************************************************************)
(* AP_Filesystem_FATFS::fsync and lseek: neither has CHECK_REMOUNT.        *)
(***************************************************************************)
Fsync(fds) ==
    /\ ~InCall
    /\ sem = "free"
    /\ \E fileno \in fds :
        LET c == [Enter("fsync") EXCEPT !.fd = fileno]
        IN  IF ~ValidFileno(file_table, fileno)
            THEN /\ errno' = EBADF
                 /\ call' = Return(c, -1)
            ELSE \E res \in BackendResults :
                  LET r == OnObject(file_table[fileno].fobj, res)
                  IN  /\ errno' = fatfs_to_errno(r)
                      /\ call' = Return([c EXCEPT !.res = r, !.nback = 1],
                                        IF r # FR_OK THEN -1 ELSE 0)
    /\ UNCHANGED <<file_table, remount_needed, sem, ndirs>>
    /\ UNCHANGED others

SEEK_SET == "SEEK_SET"
SEEK_CUR == "SEEK_CUR"
SEEK_END == "SEEK_END"

\* Lines 455-459: the position f_lseek is asked for.
SeekTarget(fobj, position, whence, f_size) ==
    CASE whence = SEEK_END -> position + f_size
      [] whence = SEEK_CUR -> position + fobj.fptr
      [] OTHER -> position

\* The file is f_size long; f_lseek to a position of the model's range
\* moves there when it returns FR_OK, and the offset is returned.
Lseek(fds) ==
    /\ ~InCall
    /\ sem = "free"
    /\ \E fileno \in fds :
        LET c == [Enter("lseek") EXCEPT !.fd = fileno]
        IN  IF ~ValidFileno(file_table, fileno)
            THEN /\ errno' = EBADF
                 /\ call' = Return(c, -1)
                 /\ UNCHANGED file_table
            ELSE \E res \in BackendResults, position \in 0 .. MaxSeek,
                    whence \in {SEEK_SET, SEEK_CUR, SEEK_END}, f_size \in {MaxOfs - 1} :
                  LET fobj == file_table[fileno].fobj
                      target == SeekTarget(fobj, position, whence, f_size)
                      r == OnObject(fobj, res)
                  IN  /\ target \in 0 .. MaxOfs
                      /\ errno' = fatfs_to_errno(r)
                      /\ IF r # FR_OK
                         THEN /\ call' = Return([c EXCEPT !.res = r, !.nback = 1], -1)
                              /\ UNCHANGED file_table
                         ELSE /\ file_table' = [file_table EXCEPT ![fileno].fobj.fptr = target]
                              /\ call' = Return([c EXCEPT !.res = r, !.nback = 1], target)
    /\ UNCHANGED <<remount_needed, sem, ndirs>>
    /\ UNCHANGED others

(***************************************************************************)
(* The chunked transfer of read and write.                                 *)
(***************************************************************************)
\* Lines 343-346 and 388-391: the size asked of the backend for one chunk.
ChunkSize_NoClamp(bytes, safe) == bytes

ChunkSize(bytes, safe) == IF ~safe THEN Min(bytes, MAX_IO_SIZE) ELSE bytes

\* What the backend can report as moved for a request of n bytes on a file
\* at offset fptr: up to n, or (a misbehaving backend) more; nothing on an
\* object that is not attached.  The offset is capped at MaxOfs.
Moved(fobj, n) == IF fobj.fs THEN {k \in 0 .. (n + 1) : fobj.fptr + k <= MaxOfs} ELSE {0}

Counts == 0 .. MaxCount

(***************************************************************************)
(* AP_Filesystem_FATFS::read                                               *)
(***************************************************************************)
ReadBegin(fds, counts) ==
    /\ ~InCall
    /\ sem = "free"
    /\ \E fd \in fds, count \in counts :
        call' = CHECK_REMOUNT(
                  [Enter("read") EXCEPT !.fd = fd, !.count = count, !.bytes = count],
                  remount_needed, "read_body")
    /\ sem' = "op"
    /\ UNCHANGED <<file_table, remount_needed, errno, ndirs>>
    /\ UNCHANGED others

\* Line 362-365, and the same at 412-415: after a chunk that moved size of
\* the n bytes asked, the loop goes on when the chunk was full and bytes
\* are left.
LoopAgain(size, n, bytes) == ~(size < n) /\ bytes > 0

\* Lines 333-366: the lookup of the handle, then one turn of the loop.
ReadChunk ==
    /\ call.pc \in {"read_body", "read_chunk"}
    /\ IF call.pc = "read_body" /\ ~ValidFileno(file_table, call.fd)
       THEN /\ errno' = EBADF
            /\ call' = Return(call, -1)
            /\ sem' = "free"
            /\ UNCHANGED file_table
       ELSE \E safe \in BOOLEAN, res \in BackendResults :
             LET fobj == file_table[call.fd].fobj
                 n == ChunkSize(call.bytes, safe)
                 r == OnAccess(fobj, FA_READ, res)
             IN  \E size \in (IF r = FR_OK THEN Moved(fobj, n) ELSE {0}) :
                  LET c == [call EXCEPT !.n = n, !.size = size, !.res = r,
                                        !.nback = @ + 1, !.nchunk = @ + 1,
                                        !.safe_seen = @ \/ safe]
                  IN  /\ file_table' = [file_table EXCEPT ![call.fd].fobj.fptr = @ + size]
                      /\ IF r # FR_OK
                         THEN /\ errno' = fatfs_to_errno(r)
                              /\ call' = Return(c, -1)
                              /\ sem' = "free"
                         ELSE IF size = 0
                         THEN /\ errno' = NoError
                              /\ call' = Return(c, c.total)
                              /\ sem' = "free"
                         ELSE IF size > n
                         THEN /\ errno' = EIO
                              /\ call' = Return(c, -1)
                              /\ sem' = "free"
                         ELSE IF LoopAgain(size, n, c.bytes - size)
                         THEN /\ errno' = NoError
                              /\ call' = [c EXCEPT !.total = @ + size, !.bytes = @ - size,
                                                   !.moved = Append(@, size),
                                                   !.pc = "read_chunk"]
                              /\ UNCHANGED sem
                         ELSE /\ errno' = NoError
                              /\ call' = Return([c EXCEPT !.total = @ + size,
                                                          !.bytes = @ - size,
                                                          !.moved = Append(@, size)],
                                                c.total + size)
                              /\ sem' = "free"
    /\ UNCHANGED <<remount_needed, ndirs>>
    /\ UNCHANGED others

(***************************************************************************)
(* AP_Filesystem_FATFS::write                                              *)
(***************************************************************************)
\* Line 374 clears errno before the semaphore is taken.
WriteBegin(fds, counts) ==
    /\ ~InCall
    /\ sem = "free"
    /\ \E fd \in fds, count \in counts :
        call' = CHECK_REMOUNT(
                  [Enter("write") EXCEPT !.fd = fd, !.count = count, !.bytes = count],
                  remount_needed, "write_body")
    /\ errno' = NoError
    /\ sem' = "op"
    /\ UNCHANGED <<file_table, remount_needed, ndirs>>
    /\ UNCHANGED others

\* Lines 381-396: the lookup of the handle, then the f_write of one chunk.
WriteChunk ==
    /\ call.pc \in {"write_body", "write_chunk"}
    /\ IF call.pc = "write_body" /\ ~ValidFileno(file_table, call.fd)
       THEN /\ errno' = EBADF
            /\ call' = Return(call, -1)
            /\ sem' = "free"
            /\ UNCHANGED file_table
       ELSE \E safe \in BOOLEAN, res \in BackendResults,
               main \in BOOLEAN, armed \in BOOLEAN :
             LET fobj == file_table[call.fd].fobj
                 n == ChunkSize(call.bytes, safe)
                 r == OnAccess(fobj, FA_WRITE, res)
             IN  /\ Context(call, r, main, armed)
                 /\ \E size \in (IF r = FR_DENIED THEN {0} ELSE Moved(fobj, n)) :
                     /\ file_table' = [file_table EXCEPT ![call.fd].fobj.fptr = @ + size]
                     /\ call' = AfterCall(
                                  [call EXCEPT !.n = n, !.size = size,
                                               !.nchunk = @ + 1,
                                               !.safe_seen = @ \/ safe],
                                  r, main, armed, TRUE, "write_retry", "write_eval")
                 /\ UNCHANGED <<errno, sem>>
    /\ UNCHANGED <<remount_needed, ndirs>>
    /\ UNCHANGED others

\* Lines 397-399: after remount_file_system, f_write again when it worked.
WriteRetry ==
    /\ call.pc = "write_retry"
    /\ IF call.rm = "ok"
       THEN \E res \in BackendResults :
             LET fobj == file_table[call.fd].fobj
                 r == OnAccess(fobj, FA_WRITE, res)
             IN  \E size \in (IF r = FR_DENIED THEN {0} ELSE Moved(fobj, call.n)) :
                  /\ file_table' = [file_table EXCEPT ![call.fd].fobj.fptr = @ + size]
                  /\ call' = AfterRetry([ClearRm(call) EXCEPT !.size = size], r,
                                         "write_retry", "write_eval")
       ELSE /\ call' = [ClearRm(call) EXCEPT !.pc = "write_eval", !.rm_failed = TRUE]
            /\ UNCHANGED file_table
    /\ UNCHANGED <<remount_needed, errno, sem, ndirs>>
    /\ UNCHANGED others

\* Line 401: a chunk that moved nothing, or more than was asked.
WriteBad_NoZero(size, n) == size > n

WriteBad(size, n) == size > n \/ size = 0

\* Lines 401-416.
WriteEval ==
    /\ call.pc = "write_eval"
    /\ IF WriteBad(call.size, call.n)
       THEN /\ errno' = EIO
            /\ call' = Return(call, -1)
            /\ sem' = "free"
       ELSE IF call.res # FR_OK \/ call.size > call.n
       THEN /\ errno' = fatfs_to_errno(call.res)
            /\ call' = Return(call, -1)
            /\ sem' = "free"
       ELSE IF LoopAgain(call.size, call.n, call.bytes - call.size)
       THEN /\ call' = [call EXCEPT !.total = @ + call.size, !.bytes = @ - call.size,
                                    !.moved = Append(@, call.size),
                                    !.pc = "write_chunk"]
            /\ UNCHANGED <<errno, sem>>
       ELSE /\ call' = Return([call EXCEPT !.total = @ + call.size,
                                           !.bytes = @ - call.size,
                                           !.moved = Append(@, call.size)],
                              call.total + call.size)
            /\ sem' = "free"
            /\ UNCHANGED errno
    /\ UNCHANGED <<file_table, remount_needed, ndirs>>
    /\ UNCHANGED others

(***************************************************************************)
(* AP_Filesystem_FATFS::stat                                               *)
(***************************************************************************)
StatBegin(names) ==
    /\ ~InCall
    /\ sem = "free"
    /\ \E name \in names :
        call' = CHECK_REMOUNT([Enter("stat") EXCEPT !.path = name],
                              remount_needed, "stat_body")
    /\ sem' = "op"
    /\ UNCHANGED <<file_table, remount_needed, errno, ndirs>>
    /\ UNCHANGED others

\* Lines 498-514: the root directory is answered without the backend;
\* else f_stat.
StatBody ==
    /\ call.pc = "stat_body"
    /\ errno' = NoError
    /\ IF call.path = "/"
       THEN /\ call' = Return(call, 0)
            /\ sem' = "free"
       ELSE /\ \E res \in BackendResults, main \in BOOLEAN, armed \in BOOLEAN :
                 /\ Context(call, res, main, armed)
                 /\ call' = AfterCall(call, res, main, armed, FALSE, "stat_retry", "stat_fin")
            /\ UNCHANGED sem
    /\ UNCHANGED <<file_table, remount_needed, ndirs>>
    /\ UNCHANGED others

\* Lines 515-517.
StatRetry ==
    /\ call.pc = "stat_retry"
    /\ IF call.rm = "ok"
       THEN \E res \in BackendResults :
             call' = AfterRetry(ClearRm(call), res, "stat_retry", "stat_fin")
       ELSE call' = [ClearRm(call) EXCEPT !.pc = "stat_fin", !.rm_failed = TRUE]
    /\ UNCHANGED <<file_table, remount_needed, errno, sem, ndirs>>
    /\ UNCHANGED others

\* Lines 519-552.
StatFin ==
    /\ call.pc = "stat_fin"
    /\ IF call.res # FR_OK
       THEN /\ errno' = fatfs_to_errno(call.res)
            /\ call' = Return(call, -1)
       ELSE /\ call' = Return(call, 0)
            /\ UNCHANGED errno
    /\ sem' = "free"
    /\ UNCHANGED <<file_table, remount_needed, ndirs>>
    /\ UNCHANGED others

(***************************************************************************)
(* AP_Filesystem_FATFS::opendir and closedir                               *)
(***************************************************************************)
OpendirBegin(paths) ==
    /\ ~InCall
    /\ sem = "free"
    /\ \E pathdir \in paths :
        call' = CHECK_REMOUNT([Enter("opendir") EXCEPT !.path = pathdir],
                              remount_needed, "opendir_body")
    /\ sem' = "op"
    /\ UNCHANGED <<file_table, remount_needed, errno, ndirs>>
    /\ UNCHANGED others

\* Lines 617-623: NEW_NOTHROW can fail (and does once MaxDirs wrappers are
\* allocated); then f_opendir.
OpendirBody ==
    /\ call.pc = "opendir_body"
    /\ \E mem_ok \in BOOLEAN :
        IF ~mem_ok \/ ndirs >= MaxDirs
        THEN /\ call' = Return(call, 0)
             /\ sem' = "free"
             /\ UNCHANGED ndirs
        ELSE /\ \E res \in BackendResults, main \in BOOLEAN, armed \in BOOLEAN :
                  /\ Context(call, res, main, armed)
                  /\ call' = AfterCall(call, res, main, armed, FALSE,
                                       "opendir_retry", "opendir_fin")
             /\ ndirs' = ndirs + 1
             /\ UNCHANGED sem
    /\ UNCHANGED <<file_table, remount_needed, errno>>
    /\ UNCHANGED others

\* Lines 624-626.
OpendirRetry ==
    /\ call.pc = "opendir_retry"
    /\ IF call.rm = "ok"
       THEN \E res \in BackendResults :
             call' = AfterRetry(ClearRm(call), res, "opendir_retry", "opendir_fin")
       ELSE call' = [ClearRm(call) EXCEPT !.pc = "opendir_fin", !.rm_failed = TRUE]
    /\ UNCHANGED <<file_table, remount_needed, errno, sem, ndirs>>
    /\ UNCHANGED others

\* Lines 628-634.
OpendirFin ==
    /\ call.pc = "opendir_fin"
    /\ IF call.res # FR_OK
       THEN /\ errno' = fatfs_to_errno(call.res)
            /\ ndirs' = ndirs - 1
            /\ call' = Return(call, 0)
       ELSE /\ call' = Return(call, 1)
            /\ UNCHANGED <<errno, ndirs>>
    /\ sem' = "free"
    /\ UNCHANGED <<file_table, remount_needed>>
    /\ UNCHANGED others

\* closedir of a wrapper opendir returned, or of a null pointer.
Closedir ==
    /\ ~InCall
    /\ sem = "free"
    /\ \E null \in BOOLEAN :
        IF null
        THEN /\ errno' = EINVAL
             /\ call' = Return(Enter("closedir"), -1)
             /\ UNCHANGED ndirs
        ELSE /\ ndirs > 0
             /\ \E res \in BackendResults :
                 /\ ndirs' = ndirs - 1
                 /\ errno' = IF res # FR_OK THEN fatfs_to_errno(res) ELSE errno
                 /\ call' = Return([Enter("closedir") EXCEPT !.res = res, !.nback = 1],
                                   IF res # FR_OK THEN -1 ELSE 0)
    /\ UNCHANGED <<file_table, remount_needed, sem>>
    /\ UNCHANGED others

(***************************************************************************)
(* The format job: format, format_handler, get_format_status               *)
(***************************************************************************)
\* format(): under sem, registers format_handler with the IO thread and
\* sets the status to PENDING.
Format ==
    /\ sem = "free"
    /\ format_status' = PENDING
    /\ worker' = [worker EXCEPT !.registered = TRUE]
    /\ UNCHANGED <<file_table, remount_needed, errno, call, sem, ndirs, polled, file, rcall, dir, thr, record_sem>>

\* Line 832: format_handler goes on only when the status is PENDING.
WorkerRuns_Any(status) == status # IN_PROGRESS

WorkerRuns(status) == status = PENDING

\* A run of format_handler that returns at line 833.
WorkerNoop ==
    /\ worker.pc = "idle"
    /\ worker.registered
    /\ ~WorkerRuns(format_status)
    /\ worker' = [worker EXCEPT !.last = "noop"]
    /\ UNCHANGED <<file_table, remount_needed, errno, call, sem, ndirs,
                   format_status, polled, file, rcall, dir, thr, record_sem>>

\* A run of format_handler that passes line 832 and waits for sem.
WorkerCheck ==
    /\ worker.pc = "idle"
    /\ worker.registered
    /\ WorkerRuns(format_status)
    /\ worker' = [worker EXCEPT !.pc = "lock"]
    /\ UNCHANGED <<file_table, remount_needed, errno, call, sem, ndirs,
                   format_status, polled, file, rcall, dir, thr, record_sem>>

\* format_handler going on without waiting for sem.
WorkerStart_NoSem ==
    /\ worker.pc = "lock"
    /\ format_status' = IN_PROGRESS
    /\ \E mem_ok \in BOOLEAN :
        IF mem_ok
        THEN /\ worker' = [worker EXCEPT !.pc = "mkfs", !.last = "started"]
             /\ sem' = "worker"
        ELSE /\ worker' = [worker EXCEPT !.pc = "idle", !.last = "nomem"]
             /\ UNCHANGED sem
    /\ UNCHANGED <<file_table, remount_needed, errno, call, ndirs, polled, file, rcall, dir, thr, record_sem>>

\* Lines 835-841: with sem taken the status becomes IN_PROGRESS; when the
\* sector buffer cannot be allocated the handler returns.
WorkerStart ==
    /\ worker.pc = "lock"
    /\ sem = "free"
    /\ format_status' = IN_PROGRESS
    /\ \E mem_ok \in BOOLEAN :
        IF mem_ok
        THEN /\ worker' = [worker EXCEPT !.pc = "mkfs", !.last = "started"]
             /\ sem' = "worker"
        ELSE /\ worker' = [worker EXCEPT !.pc = "idle", !.last = "nomem"]
             /\ UNCHANGED sem
    /\ UNCHANGED <<file_table, remount_needed, errno, call, ndirs, polled, file, rcall, dir, thr, record_sem>>

\* Lines 845-851: the status f_mkfs's result gives.
MkfsStatus(ret) == IF ret = FR_OK THEN SUCCESS ELSE FAILURE

\* Lines 843-853: f_mkfs, the status, then sdcard_stop and sdcard_retry
\* (which do not touch remount_needed or the table).
WorkerMkfs ==
    /\ worker.pc = "mkfs"
    /\ \E ret \in BackendResults :
        /\ format_status' = MkfsStatus(ret)
        /\ worker' = [worker EXCEPT !.pc = "idle",
                                    !.last = IF ret = FR_OK THEN "ok" ELSE "failed"]
    /\ sem' = "free"
    /\ UNCHANGED <<file_table, remount_needed, errno, call, ndirs, polled, file, rcall, dir, thr, record_sem>>

GetFormatStatus_Locked ==
    /\ sem = "free"
    /\ polled' = format_status
    /\ UNCHANGED <<file_table, remount_needed, errno, call, sem, ndirs,
                   format_status, worker, file, rcall, dir, thr, record_sem>>

\* get_format_status: reads the status, without sem.
GetFormatStatus ==
    /\ polled' = format_status
    /\ UNCHANGED <<file_table, remount_needed, errno, call, sem, ndirs,
                   format_status, worker, file, rcall, dir, thr, record_sem>>

(***************************************************************************)
(* AP_Filesystem_FATFS::unlink, mkdir, rename and set_mtime: sem is taken  *)
(* and the one backend call is made; none has CHECK_REMOUNT or a retry.    *)
(* The backend answers with one of results.                                *)
(***************************************************************************)
Unlink(paths, results) ==
    /\ ~InCall
    /\ sem = "free"
    /\ \E pathname \in paths, res \in results :
        /\ errno' = fatfs_to_errno(res)
        /\ call' = Return([Enter("unlink") EXCEPT !.path = pathname, !.res = res,
                                                  !.nback = 1],
                          IF res # FR_OK THEN -1 ELSE 0)
    /\ UNCHANGED <<file_table, remount_needed, sem, ndirs>>
    /\ UNCHANGED others

Mkdir(paths, results) ==
    /\ ~InCall
    /\ sem = "free"
    /\ \E pathname \in paths, res \in results :
        /\ errno' = fatfs_to_errno(res)
        /\ call' = Return([Enter("mkdir") EXCEPT !.path = pathname, !.res = res,
                                                 !.nback = 1],
                          IF res # FR_OK THEN -1 ELSE 0)
    /\ UNCHANGED <<file_table, remount_needed, sem, ndirs>>
    /\ UNCHANGED others

Rename(paths, results) ==
    /\ ~InCall
    /\ sem = "free"
    /\ \E oldpath \in paths, newpath \in paths, res \in results :
        /\ errno' = fatfs_to_errno(res)
        /\ call' = Return([Enter("rename") EXCEPT !.path = oldpath, !.res = res,
                                                  !.nback = 1],
                          IF res # FR_OK THEN -1 ELSE 0)
    /\ UNCHANGED <<file_table, remount_needed, sem, ndirs>>
    /\ UNCHANGED others

\* set_mtime returns whether f_utime returned FR_OK (1 for true, 0 for
\* false) and assigns nothing to errno.
SetMtime(paths) ==
    /\ ~InCall
    /\ sem = "free"
    /\ \E filename \in paths, res \in BackendResults :
        call' = Return([Enter("set_mtime") EXCEPT !.path = filename, !.res = res,
                                                  !.nback = 1],
                       IF res = FR_OK THEN 1 ELSE 0)
    /\ UNCHANGED <<file_table, remount_needed, errno, sem, ndirs>>
    /\ UNCHANGED others

(***************************************************************************)
(* AP_Filesystem_FATFS::disk_free and disk_space: CHECK_REMOUNT, then one  *)
(* f_getfree; neither has a retry and neither assigns errno.               *)
(***************************************************************************)
\* Line 728 and 750: the bytes of a sector.
SectorBytes == 512

DiskFreeBegin ==
    /\ ~InCall
    /\ sem = "free"
    /\ call' = CHECK_REMOUNT([Enter("disk_free") EXCEPT !.path = "/"],
                             remount_needed, "disk_free_body")
    /\ sem' = "op"
    /\ UNCHANGED <<file_table, remount_needed, errno, ndirs>>
    /\ UNCHANGED others

\* Lines 721-728: f_getfree; its result is returned when it is not FR_OK,
\* else the free sectors in bytes.
DiskFreeBody ==
    /\ call.pc = "disk_free_body"
    /\ \E res \in BackendResults, fre_sect \in 0 .. MaxSect :
        call' = Return([call EXCEPT !.res = res, !.nback = @ + 1],
                       IF res # FR_OK THEN res ELSE fre_sect * SectorBytes)
    /\ sem' = "free"
    /\ UNCHANGED <<file_table, remount_needed, errno, ndirs>>
    /\ UNCHANGED others

DiskSpaceBegin ==
    /\ ~InCall
    /\ sem = "free"
    /\ call' = CHECK_REMOUNT([Enter("disk_space") EXCEPT !.path = "/"],
                             remount_needed, "disk_space_body")
    /\ sem' = "op"
    /\ UNCHANGED <<file_table, remount_needed, errno, ndirs>>
    /\ UNCHANGED others

\* Lines 743-750: f_getfree; -1 when its result is not FR_OK, else the
\* sectors of the volume in bytes.
DiskSpaceBody ==
    /\ call.pc = "disk_space_body"
    /\ \E res \in BackendResults, tot_sect \in 0 .. MaxSect :
        call' = Return([call EXCEPT !.res = res, !.nback = @ + 1],
                       IF res # FR_OK THEN -1 ELSE tot_sect * SectorBytes)
    /\ sem' = "free"
    /\ UNCHANGED <<file_table, remount_needed, errno, ndirs>>
    /\ UNCHANGED others

(***************************************************************************)
(* AP_Filesystem_ROMFS::open and close                                     *)
(***************************************************************************)
\* The files of the ROMFS image and their decompressed sizes.
RomFiles == {"a", "b"}
RomSize(fname) == IF fname = "a" THEN MaxCount ELSE 0

RomOccupied(tab) == {i \in RomSlots : tab[i].data # NoName}

\* Lines 37-42: the first record without data, max_open_file when none.
RomFirstFree(tab) ==
    IF \E i \in RomSlots : tab[i].data = NoName
    THEN CHOOSE i \in RomSlots :
           tab[i].data = NoName /\ \A j \in RomSlots : j < i => tab[j].data # NoName
    ELSE max_open_file

\* open: find_decompress returns nullptr when the file is not in the image
\* or its buffer cannot be allocated.
RomOpen(paths, accs) ==
    /\ record_sem = "free"
    /\ \E fname \in paths, acc \in accs, mem_ok \in BOOLEAN :
        LET idx == RomFirstFree(file)
            c == [op |-> "open", fd |-> -1, ret |-> -1, pre |-> RomOccupied(file)]
        IN  IF acc # O_RDONLY
            THEN errno' = EROFS /\ rcall' = c /\ UNCHANGED file
            ELSE IF idx = max_open_file
            THEN errno' = ENFILE /\ rcall' = c /\ UNCHANGED file
            ELSE IF fname \notin RomFiles \/ ~mem_ok
            THEN errno' = ENOENT /\ rcall' = c /\ UNCHANGED file
            ELSE /\ file' = [file EXCEPT ![idx] = [data |-> fname,
                                                   size |-> RomSize(fname), ofs |-> 0]]
                 /\ rcall' = [c EXCEPT !.ret = idx]
                 /\ UNCHANGED errno
    /\ UNCHANGED <<file_table, remount_needed, call, sem, ndirs,
                   format_status, worker, polled, dir, thr, record_sem>>

RomFilenos == -1 .. max_open_file

\* close: the data is freed and the record is free again.
RomClose ==
    /\ record_sem = "free"
    /\ \E fd \in RomFilenos :
        LET c == [op |-> "close", fd |-> fd, ret |-> -1, pre |-> RomOccupied(file)]
        IN  IF fd < 0 \/ fd >= max_open_file \/ file[fd].data = NoName
            THEN errno' = EBADF /\ rcall' = c /\ UNCHANGED file
            ELSE /\ file' = [file EXCEPT ![fd].data = NoName]
                 /\ rcall' = [c EXCEPT !.ret = 0]
                 /\ UNCHANGED errno
    /\ UNCHANGED <<file_table, remount_needed, call, sem, ndirs,
                   format_status, worker, polled, dir, thr, record_sem>>

(***************************************************************************)
(* AP_Filesystem_ROMFS::opendir and closedir                               *)
(***************************************************************************)
\* The directories of the ROMFS image: dir_list finds an entry under them.
RomDirs == {"d"}

DirOccupied(tab) == {i \in DirSlots : tab[i] # NoName}

\* Lines 146-151: the first record without a path, max_open_dir when none.
DirFirstFree(tab) ==
    IF \E i \in DirSlots : tab[i] = NoName
    THEN CHOOSE i \in DirSlots :
           tab[i] = NoName /\ \A j \in DirSlots : j < i => tab[j] # NoName
    ELSE max_open_dir

\* opendir returns the address of the record, here its index, and nullptr
\* (-1) on failure.  The path is copied into the record before dir_list is
\* asked whether the directory exists, and the record keeps the copy when
\* it does not.
RomOpendir(paths) ==
    /\ record_sem = "free"
    /\ \E pathname \in paths, mem_ok \in BOOLEAN :
        LET idx == DirFirstFree(dir)
            c == [op |-> "opendir", path |-> pathname, ret |-> -1,
                  pre |-> DirOccupied(dir)]
        IN  IF idx = max_open_dir
            THEN errno' = ENFILE /\ rcall' = c /\ UNCHANGED dir
            ELSE IF ~mem_ok
            THEN rcall' = c /\ UNCHANGED <<errno, dir>>
            ELSE IF pathname \notin RomDirs
            THEN /\ dir' = [dir EXCEPT ![idx] = pathname]
                 /\ rcall' = c
                 /\ UNCHANGED errno
            ELSE /\ dir' = [dir EXCEPT ![idx] = pathname]
                 /\ rcall' = [c EXCEPT !.ret = idx]
                 /\ UNCHANGED errno
    /\ UNCHANGED <<file_table, remount_needed, call, sem, ndirs,
                   format_status, worker, polled, file, thr, record_sem>>

\* The pointers a caller can pass: a record of dir, or one outside it
\* (max_open_dir; nullptr gives an index far above it).
DirPointers == 0 .. max_open_dir

\* closedir: the path is freed and the record is free again.
RomClosedir ==
    /\ record_sem = "free"
    /\ \E idx \in DirPointers :
        LET c == [op |-> "closedir", path |-> NoName, ret |-> -1,
                  pre |-> DirOccupied(dir)]
        IN  IF idx >= max_open_dir
            THEN errno' = EBADF /\ rcall' = c /\ UNCHANGED dir
            ELSE /\ dir' = [dir EXCEPT ![idx] = NoName]
                 /\ rcall' = [c EXCEPT !.ret = 0]
                 /\ UNCHANGED errno
    /\ UNCHANGED <<file_table, remount_needed, call, sem, ndirs,
                   format_status, worker, polled, file, thr, record_sem>>

(***************************************************************************)
(* AP_Filesystem_ROMFS::close, read and lseek called from several threads, *)
(* statement by statement.  close takes record_sem after its check of the  *)
(* handle; read and lseek take no semaphore.                               *)
(***************************************************************************)
ThreadFree(t) == thr[t].pc \in {"idle", "done"}

\* Lines 58, 71, 97: the check of the handle.
RomBadFd(tab, fd) == fd < 0 \/ fd >= max_open_file \/ tab[fd].data = NoName

\* The buffer of a record is released and the record still points to it:
\* a close is between lines 64 and 65.
Released(fd) == \E u \in Threads : thr[u].pc = "close_null" /\ thr[u].fd = fd

ThreadBegin(t, op, fd, count, body) ==
    LET c == [ThreadIdle EXCEPT !.op = op, !.fd = fd, !.count = count]
    IN  IF RomBadFd(file, fd)
        THEN [thr EXCEPT ![t] = [c EXCEPT !.pc = "done", !.err = EBADF]]
        ELSE [thr EXCEPT ![t] = [c EXCEPT !.pc = body]]

\* Lines 58-61.
ThreadCloseBegin(fds) ==
    /\ \E t \in Threads, fd \in fds :
        /\ ThreadFree(t)
        /\ thr' = ThreadBegin(t, "close", fd, 0, "close_lock")
    /\ UNCHANGED <<file_table, remount_needed, errno, call, sem, ndirs,
                   format_status, worker, polled, file, rcall, dir, record_sem>>

\* Line 63.
ThreadCloseLock ==
    /\ \E t \in Threads :
        /\ thr[t].pc = "close_lock"
        /\ record_sem = "free"
        /\ record_sem' = "held"
        /\ thr' = [thr EXCEPT ![t].pc = "close_free"]
    /\ UNCHANGED <<file_table, remount_needed, errno, call, sem, ndirs,
                   format_status, worker, polled, file, rcall, dir>>

\* Line 64: the buffer the record points to now is released.  A thread
\* that has loaded the pointer for its memcpy is left with a released
\* buffer.
ThreadCloseFree ==
    /\ \E t \in Threads :
        /\ thr[t].pc = "close_free"
        /\ thr' = [u \in Threads |->
             IF u = t
             THEN [thr[t] EXCEPT !.pc = "close_null", !.data = file[thr[t].fd].data]
             ELSE IF thr[u].pc = "read_copy" /\ thr[u].fd = thr[t].fd
                     /\ thr[u].src = "live"
             THEN [thr[u] EXCEPT !.src = "released"]
             ELSE thr[u]]
    /\ UNCHANGED <<file_table, remount_needed, errno, call, sem, ndirs,
                   format_status, worker, polled, file, rcall, dir, record_sem>>

\* Lines 65-66: the record is free, 0 is returned, record_sem is given
\* back.  A close of the same handle that has passed its check and waits
\* is marked: the handle it checked has been closed.
ThreadCloseNull ==
    /\ \E t \in Threads :
        /\ thr[t].pc = "close_null"
        /\ file' = [file EXCEPT ![thr[t].fd].data = NoName]
        /\ record_sem' = "free"
        /\ thr' = [u \in Threads |->
             IF u = t
             THEN [thr[t] EXCEPT !.pc = "done", !.ret = 0]
             ELSE IF thr[u].pc = "close_lock" /\ thr[u].fd = thr[t].fd
                     /\ thr[t].data # NoName
             THEN [thr[u] EXCEPT !.src = "closed"]
             ELSE thr[u]]
    /\ UNCHANGED <<file_table, remount_needed, errno, call, sem, ndirs,
                   format_status, worker, polled, rcall, dir>>

\* Lines 71-74.
ThreadReadBegin(fds, counts) ==
    /\ \E t \in Threads, fd \in fds, count \in counts :
        /\ ThreadFree(t)
        /\ thr' = ThreadBegin(t, "read", fd, count, "read_clamp")
    /\ UNCHANGED <<file_table, remount_needed, errno, call, sem, ndirs,
                   format_status, worker, polled, file, rcall, dir, record_sem>>

\* Lines 75-78, and the load of file[fd].data for the memcpy of line 79.
ThreadReadClamp ==
    /\ \E t \in Threads :
        /\ thr[t].pc = "read_clamp"
        /\ LET f == file[thr[t].fd]
               \* size - ofs is unsigned: with ofs above size it wraps to a
               \* value above every count
               count == IF f.ofs <= f.size THEN Min(f.size - f.ofs, thr[t].count)
                        ELSE thr[t].count
           IN  thr' = IF count = 0
                      THEN [thr EXCEPT ![t].pc = "done", ![t].ret = 0]
                      ELSE [thr EXCEPT ![t].pc = "read_copy", ![t].count = count,
                                       ![t].data = f.data,
                                       ![t].src = IF f.data = NoName THEN "null"
                                                  ELSE IF Released(thr[t].fd)
                                                  THEN "released" ELSE "live"]
    /\ UNCHANGED <<file_table, remount_needed, errno, call, sem, ndirs,
                   format_status, worker, polled, file, rcall, dir, record_sem>>

\* Lines 79-81: the copy, the offset, the return.  A copy from nullptr or
\* from a released buffer is undefined: the thread goes on or faults.  The
\* offset is followed up to MaxRomOfs.
ThreadReadCopy ==
    /\ \E t \in Threads :
        /\ thr[t].pc = "read_copy"
        /\ file[thr[t].fd].ofs + thr[t].count <= MaxRomOfs
        /\ \E fault \in BOOLEAN :
            IF fault /\ thr[t].src # "live"
            THEN /\ thr' = [thr EXCEPT ![t].pc = "fault"]
                 /\ UNCHANGED file
            ELSE /\ file' = [file EXCEPT ![thr[t].fd].ofs = @ + thr[t].count]
                 /\ thr' = [thr EXCEPT ![t].pc = "done", ![t].ret = thr[t].count]
    /\ UNCHANGED <<file_table, remount_needed, errno, call, sem, ndirs,
                   format_status, worker, polled, rcall, dir, record_sem>>

\* Lines 97-100.
ThreadLseekBegin(fds) ==
    /\ \E t \in Threads, fd \in fds :
        /\ ThreadFree(t)
        /\ thr' = ThreadBegin(t, "lseek", fd, 0, "lseek_set")
    /\ UNCHANGED <<file_table, remount_needed, errno, call, sem, ndirs,
                   format_status, worker, polled, file, rcall, dir, record_sem>>

\* Lines 101-116 with SEEK_SET and an offset that is not negative.
ThreadLseekSet ==
    /\ \E t \in Threads, offset \in 0 .. MaxSeek :
        /\ thr[t].pc = "lseek_set"
        /\ LET ofs == Min(file[thr[t].fd].size, offset)
           IN  /\ file' = [file EXCEPT ![thr[t].fd].ofs = ofs]
               /\ thr' = [thr EXCEPT ![t].pc = "done", ![t].ret = ofs]
    /\ UNCHANGED <<file_table, remount_needed, errno, call, sem, ndirs,
                   format_status, worker, polled, rcall, dir, record_sem>>

(***************************************************************************)
(* AP_Filesystem_ROMFS::read and lseek, called by one thread               *)
(***************************************************************************)
\* What a call that reads or refuses leaves in rcall: the tables as they
\* were when it was called.
RomCall(op, fd, count) ==
    [op |-> op, fd |-> fd, count |-> count, whence |-> "none", copied |-> FALSE,
     ret |-> -1, pre |-> file, predir |-> dir]

\* read: lines 71-81.
RomRead(fds, counts) ==
    /\ \E fd \in fds, n \in counts :
        LET c == RomCall("read", fd, n)
        IN  IF RomBadFd(file, fd)
            THEN errno' = EBADF /\ rcall' = c /\ UNCHANGED file
            ELSE LET count == Min(file[fd].size - file[fd].ofs, n)
                 IN  /\ file' = [file EXCEPT ![fd].ofs = @ + count]
                     /\ rcall' = [c EXCEPT !.ret = count, !.copied = count # 0]
                     /\ UNCHANGED errno
    /\ UNCHANGED <<file_table, remount_needed, call, sem, ndirs,
                   format_status, worker, polled, dir, thr, record_sem>>

\* Lines 109: offset + file[fd].ofs is computed in uint32_t.  A sum below
\* zero wraps to 2^32 plus the sum, which is above every size.
SeekCur_Signed(size, ofs, offset) == Min(size, offset + ofs)

SeekCur(size, ofs, offset) ==
    IF offset + ofs < 0 THEN size ELSE Min(size, offset + ofs)

\* The values of seek_from: the three the switch lists and one it does not.
Whences == {SEEK_SET, SEEK_CUR, SEEK_END, "SEEK_DATA"}

\* The offsets a caller seeks by.
SeekOffsets == (0 - MaxSeek) .. (MaxCount + 1)

\* lseek: lines 97-116.  The offset it returns is rcall.ret.
RomLseek(fds) ==
    /\ \E fd \in fds, offset \in SeekOffsets, seek_from \in Whences :
        LET c == [RomCall("lseek", fd, offset) EXCEPT !.whence = seek_from]
        IN  IF RomBadFd(file, fd)
            THEN errno' = EBADF /\ rcall' = c /\ UNCHANGED file
            ELSE IF seek_from = SEEK_SET /\ offset < 0
            THEN errno' = EINVAL /\ rcall' = c /\ UNCHANGED file
            ELSE LET f == file[fd]
                     ofs == CASE seek_from = SEEK_SET -> Min(f.size, offset)
                              [] seek_from = SEEK_CUR -> SeekCur(f.size, f.ofs, offset)
                              [] seek_from = SEEK_END -> f.size
                              [] OTHER -> f.ofs
                 IN  /\ file' = [file EXCEPT ![fd].ofs = ofs]
                     /\ rcall' = [c EXCEPT !.ret = ofs]
                     /\ UNCHANGED errno
    /\ UNCHANGED <<file_table, remount_needed, call, sem, ndirs,
                   format_status, worker, polled, dir, thr, record_sem>>

(***************************************************************************)
(* AP_Filesystem_ROMFS::write, unlink, mkdir, and rename                   *)
(***************************************************************************)
RomWrite_Advance(fds, counts) ==
    /\ \E fd \in fds, n \in counts :
        /\ errno' = EROFS
        /\ rcall' = RomCall("write", fd, n)
        /\ file' = IF RomBadFd(file, fd) THEN file
                   ELSE [file EXCEPT ![fd].ofs = Min(file[fd].size, @ + n)]
    /\ UNCHANGED <<file_table, remount_needed, call, sem, ndirs,
                   format_status, worker, polled, dir, thr, record_sem>>

\* write: lines 84-88.
RomWrite(fds, counts) ==
    /\ \E fd \in fds, n \in counts :
        /\ errno' = EROFS
        /\ rcall' = RomCall("write", fd, n)
    /\ UNCHANGED <<file_table, remount_needed, call, sem, ndirs,
                   format_status, worker, polled, file, dir, thr, record_sem>>

\* unlink: lines 131-135.
RomUnlink ==
    /\ errno' = EROFS
    /\ rcall' = RomCall("unlink", -1, 0)
    /\ UNCHANGED <<file_table, remount_needed, call, sem, ndirs,
                   format_status, worker, polled, file, dir, thr, record_sem>>

\* mkdir: lines 137-141.
RomMkdir ==
    /\ errno' = EROFS
    /\ rcall' = RomCall("mkdir", -1, 0)
    /\ UNCHANGED <<file_table, remount_needed, call, sem, ndirs,
                   format_status, worker, polled, file, dir, thr, record_sem>>

\* rename is not defined in AP_Filesystem_ROMFS.cpp; it is taken to fail
\* with EROFS and to change nothing, as the specification of the backend
\* says.
RomRename ==
    /\ errno' = EROFS
    /\ rcall' = RomCall("rename", -1, 0)
    /\ UNCHANGED <<file_table, remount_needed, call, sem, ndirs,
                   format_status, worker, polled, file, dir, thr, record_sem>>

(***************************************************************************)
(* Specifications.  Each is the program under the calls of one set of      *)
(* callers: the steps of remount_file_system belong to every one whose     *)
(* operations can run it.                                                  *)
(***************************************************************************)
ReadOnlyFlags ==
    {[acc |-> O_RDONLY, creat |-> FALSE, trunc |-> FALSE, append |-> FALSE]}

RWFlags ==
    {[acc |-> O_RDWR, creat |-> TRUE, trunc |-> FALSE, append |-> FALSE]}

\* The media operations of FATFS on one file, opened for reading and
\* writing up to MAX_FILES times: single-chunk reads, writes of more than
\* one chunk.
Next ==
    \/ OpenBegin({"a"}, RWFlags)
    \/ OpenAlloc
    \/ OpenFopen
    \/ OpenRetry
    \/ OpenFin
    \/ Close(Slots)
    \/ ReadBegin({0}, {1})
    \/ ReadChunk
    \/ WriteBegin({0}, {MaxCount})
    \/ WriteChunk
    \/ WriteRetry
    \/ WriteEval
    \/ StatBegin({"a", "/"})
    \/ StatBody
    \/ StatRetry
    \/ StatFin
    \/ OpendirBegin({"a"})
    \/ OpendirBody
    \/ OpendirRetry
    \/ OpendirFin
    \/ Closedir
    \/ CheckRemountReturn
    \/ RemountRetry
    \/ RemountReopen
    \/ RemountDone

Spec == Init /\ [][Next]_vars

\* open and close of every file in every mode of the callers, and the
\* recoveries they run.
NextRecovery ==
    \/ OpenBegin(Paths, CallerFlags)
    \/ OpenAlloc
    \/ OpenFopen
    \/ OpenRetry
    \/ OpenFin
    \/ Close(Filenos)
    \/ CheckRemountReturn
    \/ RemountRetry
    \/ RemountReopen
    \/ RemountDone

SpecRecovery == Init /\ [][NextRecovery]_vars

\* Reads and writes of every size on one file.
NextIO ==
    \/ OpenBegin({"a"}, RWFlags)
    \/ OpenAlloc
    \/ OpenFopen
    \/ OpenRetry
    \/ OpenFin
    \/ Close(Slots)
    \/ ReadBegin({0}, Counts)
    \/ ReadChunk
    \/ WriteBegin({0}, Counts)
    \/ WriteChunk
    \/ WriteRetry
    \/ WriteEval
    \/ CheckRemountReturn
    \/ RemountRetry
    \/ RemountReopen
    \/ RemountDone

SpecIO == Init /\ [][NextIO]_vars

\* The operations that take a handle, called with every fileno: in range
\* and open, in range and free, out of range.
NextHandle ==
    \/ OpenBegin({"a"}, RWFlags)
    \/ OpenAlloc
    \/ OpenFopen
    \/ OpenRetry
    \/ OpenFin
    \/ Close(Filenos)
    \/ ReadBegin(Filenos, {1})
    \/ ReadChunk
    \/ WriteBegin(Filenos, {1})
    \/ WriteChunk
    \/ WriteRetry
    \/ WriteEval
    \/ Fsync(Filenos)
    \/ Lseek(Filenos)
    \/ CheckRemountReturn
    \/ RemountRetry
    \/ RemountReopen
    \/ RemountDone

SpecHandle == Init /\ [][NextHandle]_vars

AppendFlags ==
    {[acc |-> O_RDWR, creat |-> TRUE, trunc |-> FALSE, append |-> TRUE]}

\* open for appending and close on FATFS, open and close on ROMFS.
NextSlots ==
    \/ OpenBegin({"a"}, AppendFlags)
    \/ OpenAlloc
    \/ OpenFopen
    \/ OpenRetry
    \/ OpenFin
    \/ Close(Slots)
    \/ CheckRemountReturn
    \/ RemountRetry
    \/ RemountReopen
    \/ RemountDone
    \/ RomOpen({"a", "c"}, {O_RDONLY})
    \/ RomClose

SpecSlots == Init /\ [][NextSlots]_vars

\* open and close on both backends.
NextTable ==
    \/ OpenBegin(Paths, ReadOnlyFlags)
    \/ OpenAlloc
    \/ OpenFopen
    \/ OpenRetry
    \/ OpenFin
    \/ Close(Filenos)
    \/ CheckRemountReturn
    \/ RemountRetry
    \/ RemountReopen
    \/ RemountDone
    \/ RomOpen({"a", "c"}, {O_RDONLY, O_WRONLY})
    \/ RomClose

SpecTable == Init /\ [][NextTable]_vars

\* The format job, polled, beside callers of stat.
NextFormat ==
    \/ Format
    \/ WorkerNoop
    \/ WorkerCheck
    \/ WorkerStart
    \/ WorkerMkfs
    \/ GetFormatStatus
    \/ StatBegin({"a"})
    \/ StatBody
    \/ StatRetry
    \/ StatFin
    \/ CheckRemountReturn
    \/ RemountRetry
    \/ RemountDone

SpecFormat == Init /\ [][NextFormat]_vars

(***************************************************************************)
(* Properties.                                                             *)
(***************************************************************************)
\* The operations that reach the medium behind CHECK_REMOUNT, and those of
\* them that repeat a backend call after a disk error.
MediaOps == {"open", "read", "write", "stat", "opendir"}
RetryOps == {"open", "write", "stat", "opendir"}

\* C1: on the FATFS table and on the ROMFS table the handles in use never
\* exceed the capacity of the table, and an open that succeeds returns the
\* lowest-numbered slot that was free when it was called, never a slot that
\* was occupied.
C1_LowestFreeSlot ==
    /\ Cardinality(Occupied(file_table)) <= MAX_FILES
    /\ Cardinality(RomOccupied(file)) <= max_open_file
    /\ (call.op = "open" /\ call.pc = "done" /\ call.ret >= 0) =>
          /\ call.ret \in Slots
          /\ call.pre[call.ret] = NoName
          /\ \A j \in Slots : j < call.ret => call.pre[j] # NoName
          /\ file_table[call.ret] # NULL
    /\ (rcall.op = "open" /\ rcall.ret >= 0) =>
          /\ rcall.ret \in RomSlots
          /\ rcall.ret \notin rcall.pre
          /\ \A j \in RomSlots : j < rcall.ret => j \in rcall.pre
          /\ file[rcall.ret].data # NoName

\* Both tables had slot 0 free below an occupied slot 1, and open returned 0.
C1_Witness ==
    /\ call.op = "open" /\ call.pc = "done" /\ call.ret = 0
    /\ call.pre[1] # NoName
    /\ rcall.op = "open" /\ rcall.ret = 0 /\ 1 \in rcall.pre

C3_EntryRecovery ==
    (call.op \in MediaOps /\ call.entry_rn) =>
        /\ call.nback > 0 => call.e_rm = "ok"
        /\ call.pc = "done" => call.e_rm # "none"
        /\ (call.pc = "done" /\ call.e_rm = "failed") =>
              /\ Failed(call)
              /\ errno = EIO
              /\ call.nback = 0 /\ call.nreopen = 0
              /\ Names(file_table) = call.pre
              /\ remount_needed

\* An open entered with the flag set has returned after its entry recovery
\* failed, and a table that holds an open file.
C3_Witness ==
    /\ call.op = "open" /\ call.pc = "done"
    /\ call.entry_rn /\ call.e_rm = "failed"
    /\ Occupied(file_table) # {}

\* C4 as stated: when remount_file_system has returned true, every handle
\* that was open before is attached at the offset it had.
C4_AllRestored ==
    call.rm = "ok" =>
        \A i \in Slots : call.rm_flag[i] # {} =>
            file_table[i].fobj.fs /\ file_table[i].fobj.fptr = call.rm_pre[i]

\* C4: when remount_file_system has returned true, a handle that was open
\* before is attached at the offset it had if its f_open and its f_lseek
\* succeeded; it is detached (a zeroed FIL) if its f_open failed, and
\* attached at offset 0 if its f_lseek failed.
C4_RestoredWhenReopened ==
    call.rm = "ok" =>
        \A i \in Slots : call.rm_flag[i] # {} =>
            /\ call.rm_out[i] # "none"
            /\ call.rm_out[i] = "ok" =>
                  file_table[i].fobj.fs /\ file_table[i].fobj.fptr = call.rm_pre[i]
            /\ call.rm_out[i] = "openfail" => file_table[i].fobj = ZeroFIL
            /\ call.rm_out[i] = "seekfail" =>
                  file_table[i].fobj.fs /\ file_table[i].fobj.fptr = 0

\* A recovery has put a handle back at an offset that is not 0.
C4_Witness ==
    /\ call.rm = "ok"
    /\ \E i \in Slots : /\ call.rm_flag[i] # {}
                        /\ call.rm_out[i] = "ok"
                        /\ call.rm_pre[i] > 0
                        /\ file_table[i].fobj.fptr = call.rm_pre[i]

\* C5: no step of remount_file_system changes which slots are occupied or
\* the path stored in a slot, whether its reopens succeed or fail; a slot
\* becomes free only by the close of its handle or by the failure of the
\* open that allocated it.
C5_RemountKeepsSlots ==
    [][ /\ InRemount => Names(file_table') = Names(file_table)
        /\ \A i \in Slots :
              (file_table[i] # NULL /\ file_table'[i] = NULL) =>
                 \/ call'.op = "close" /\ call'.fd = i /\ call'.pc = "done"
                 \/ call.op = "open" /\ call.fd = i /\ Failed(call') ]_vars

\* remount_file_system has returned after the reopen of a slot failed, and
\* the slot still holds its path.
C5_Witness ==
    /\ call.rm = "ok"
    /\ \E i \in Slots : /\ call.rm_out[i] = "openfail"
                        /\ file_table[i].name \in Paths
                        /\ file_table[i].fobj = ZeroFIL

\* C6 as stated: one call of open, write, stat or opendir runs at most one
\* recovery after a disk error and repeats at most one backend call.
C6_OneRetryPerCall ==
    call.op \in RetryOps => call.nrm <= 1 /\ call.nretried <= 1

\* C6: a backend call that reported the disk error is followed by at most
\* one recovery and is repeated at most once, and the repeated call is not
\* retried: at most one of each in a call of open, stat or opendir, at most
\* one of each per chunk in a call of write, whose chunks are bounded by
\* its count; read runs none.
C6_OneRetryPerBackendCall ==
    /\ call.op \in {"open", "stat", "opendir"} =>
          call.nrm <= 1 /\ call.nretried <= call.nrm
    /\ call.op = "write" =>
          /\ call.nrm <= call.nchunk
          /\ call.nretried <= call.nrm
          /\ call.nback = call.nchunk + call.nretried
          /\ call.nchunk <= (IF call.count = 0 THEN 1 ELSE call.count)
    /\ call.op = "read" => call.nrm = 0 /\ call.nretried = 0

\* A write of two chunks has returned its count after a recovery and a
\* repeated f_write in each chunk.
C6_Witness ==
    /\ call.op = "write" /\ call.pc = "done"
    /\ call.nchunk = 2 /\ call.nrm = 2 /\ call.nretried = 2
    /\ call.ret = call.count

\* C7 as stated: the delay, the recovery and the repeated call happen only
\* for a caller outside the main thread with the vehicle not armed; in any
\* other context the disk error is returned at once.
C7_RetryOnlyOffMainAndDisarmed ==
    call.op \in RetryOps =>
        /\ (call.nrm > 0 \/ call.nretried > 0 \/ call.ndelay > 0) =>
              ~call.main /\ ~call.armed
        /\ (call.asked /\ ~(~call.main /\ ~call.armed)) => call.nrm = 0

\* C7: the delay, the recovery and the repeated call happen when the caller
\* is outside the main thread or the vehicle is not armed, and then the
\* recovery is run; only a caller in the main thread of an armed vehicle
\* gets the disk error back at once, with no delay, no recovery and no
\* repeated call.
C7_RetryUnlessMainAndArmed ==
    call.op \in RetryOps =>
        /\ (call.nrm > 0 \/ call.nretried > 0 \/ call.ndelay > 0) =>
              call.asked /\ (~call.main \/ ~call.armed)
        /\ (call.asked /\ (~call.main \/ ~call.armed)) => call.nrm > 0
        /\ (call.asked /\ call.main /\ call.armed) =>
              /\ call.nrm = 0 /\ call.nretried = 0 /\ call.ndelay = 0
              /\ call.pc = "done" =>
                    Failed(call) /\ errno = EIO /\ call.res = FR_DISK_ERR

\* An open called in the main thread of a vehicle that is not armed has
\* succeeded with its repeated f_open.
C7_Witness ==
    /\ call.op = "open" /\ call.pc = "done"
    /\ call.asked /\ call.main /\ ~call.armed
    /\ call.ndelay = 1 /\ call.nrm = 1 /\ call.nretried = 1
    /\ call.ret >= 0

RECURSIVE SeqSum(_)
SeqSum(q) == IF q = << >> THEN 0 ELSE Head(q) + SeqSum(Tail(q))

WorkerStep == worker'.pc # worker.pc \/ worker'.last # worker.last

\* C10: format_status changes only to PENDING by format(), from PENDING to
\* IN_PROGRESS by format_handler, and from IN_PROGRESS to SUCCESS or
\* FAILURE by format_handler after f_mkfs; SUCCESS and FAILURE stay until
\* the next format(); a run of format_handler that finds a status other
\* than PENDING changes nothing and does not reach f_mkfs.
C10_FormatStatusEdges ==
    [][ /\ format_status' # format_status =>
              \/ format_status' = PENDING /\ ~WorkerStep /\ worker'.registered
              \/ /\ format_status = PENDING /\ format_status' = IN_PROGRESS
                 /\ WorkerStep /\ worker.pc = "lock"
              \/ /\ format_status = IN_PROGRESS
                 /\ format_status' \in {SUCCESS, FAILURE}
                 /\ WorkerStep /\ worker.pc = "mkfs"
        /\ (WorkerStep /\ worker.pc = "idle" /\ format_status # PENDING) =>
              /\ format_status' = format_status
              /\ worker'.pc = "idle" /\ worker'.last = "noop"
              /\ UNCHANGED <<file_table, remount_needed, errno, call, sem, ndirs>> ]_vars

\* format_handler has run again after a format that failed, and the status
\* read is still FAILURE.
C10_Witness ==
    /\ format_status = FAILURE /\ polled = FAILURE
    /\ worker.pc = "idle" /\ worker.last = "noop"

(***************************************************************************)
(* The format job under the scheduling the program has: an operation that  *)
(* holds sem runs to its return, the IO thread keeps calling the           *)
(* registered format_handler, and a handler waiting for sem gets it.       *)
(***************************************************************************)
FormatFairness ==
    /\ WF_vars(StatBody) /\ WF_vars(StatRetry) /\ WF_vars(StatFin)
    /\ WF_vars(CheckRemountReturn) /\ WF_vars(RemountRetry) /\ WF_vars(RemountDone)
    /\ WF_vars(WorkerCheck) /\ SF_vars(WorkerStart) /\ WF_vars(WorkerMkfs)

SpecFormatFair == Init /\ [][NextFormat]_vars /\ FormatFairness

\* C11: once format() has set PENDING the status eventually becomes SUCCESS
\* or FAILURE, and whenever format_handler returns after it has set
\* IN_PROGRESS (f_mkfs worked, f_mkfs failed, no sector buffer) the status
\* is SUCCESS or FAILURE.
C11_FormatCompletes ==
    /\ (format_status = PENDING) ~> (format_status \in {SUCCESS, FAILURE})
    /\ [][(worker.pc \in {"lock", "mkfs"} /\ worker'.pc = "idle") =>
              format_status' \in {SUCCESS, FAILURE}]_vars

\* format_handler has returned for want of a sector buffer, a later run of
\* it has changed nothing, and the status read is IN_PROGRESS.
C11_Stuck ==
    /\ format_status = IN_PROGRESS /\ polled = IN_PROGRESS
    /\ worker.pc = "idle" /\ worker.last = "noop"
    /\ sem = "free"

\* C12: get_format_status does not take sem: in every state, whoever holds
\* sem, a call of it can be made, returns the status as it is then, and
\* changes neither sem nor the status.
C12_StatusAlwaysReadable ==
    /\ [](ENABLED GetFormatStatus)
    /\ [](polled \in {"none", IDLE, PENDING, IN_PROGRESS, SUCCESS, FAILURE})
    /\ [][polled' # polled =>
            /\ polled' = format_status
            /\ UNCHANGED <<sem, format_status, worker>>]_vars

\* The status has been read as IN_PROGRESS while format_handler holds sem
\* in f_mkfs and an operation waits to be called.
C12_Witness ==
    /\ sem = "worker" /\ worker.pc = "mkfs"
    /\ format_status = IN_PROGRESS /\ polled = IN_PROGRESS
    /\ ENABLED GetFormatStatus

\* The table was full when the call of the frame c was made.
FullAtEntry(c) == \A i \in Slots : c.pre[i] # NoName

\* C13 as stated: an open called with every slot occupied returns -1 with
\* ENFILE and has made no f_open, whatever the state of the volume.
C13_FullTableOpenAnyState ==
    (call.op = "open" /\ call.pc = "done" /\ FullAtEntry(call)) =>
        /\ call.ret = -1 /\ errno = ENFILE
        /\ call.nback = 0 /\ call.nreopen = 0

\* C13: an open called with every slot occupied and remount_needed clear
\* returns -1 with ENFILE, makes no f_open, and none of its steps changes a
\* slot (path, FIL, offset); called with remount_needed set it returns -1
\* too, with EIO when the entry recovery fails and with ENFILE after a
\* recovery that reopened the handles.
C13_FullTableOpen ==
    /\ [][(call' # call /\ call'.op = "open" /\ FullAtEntry(call')
             /\ ~call'.entry_rn) =>
            /\ file_table' = file_table
            /\ call'.pc \in {"open_alloc", "done"}
            /\ call'.pc = "done" =>
                  /\ call'.ret = -1 /\ errno' = ENFILE
                  /\ call'.nback = 0 /\ call'.nreopen = 0]_vars
    /\ []((call.op = "open" /\ call.pc = "done" /\ FullAtEntry(call)) =>
            /\ call.ret = -1
            /\ call.nback = 0
            /\ Names(file_table) = call.pre
            /\ call.e_rm = "failed" => call.nreopen = 0 /\ remount_needed
            /\ call.e_rm # "failed" => call.nreopen = (IF call.entry_rn THEN MAX_FILES ELSE 0))

\* An open of a full table, of a volume that is not flagged, has returned
\* and the handles are attached as before.
C13_Witness ==
    /\ call.op = "open" /\ call.pc = "done" /\ FullAtEntry(call)
    /\ ~call.entry_rn /\ call.ret = -1 /\ errno = ENFILE
    /\ \A i \in Slots : file_table[i].fobj.fs

\* The operations that take a handle, and the handle of the frame c was not
\* one of an open file when the call was made.
HandleOps == {"close", "read", "write", "fsync", "lseek"}
BadHandle(c) == c.fd \notin Slots \/ c.pre[c.fd] = NoName

\* C14 as stated: close, read, write, fsync and lseek of a handle that is
\* out of range or free return -1 with EBADF in every state of the volume,
\* with no backend call and no recovery.
C14_BadHandleAnyState ==
    (call.op \in HandleOps /\ call.pc = "done" /\ BadHandle(call)) =>
        /\ call.ret = -1 /\ errno = EBADF
        /\ call.nback = 0 /\ call.nreopen = 0 /\ call.e_rm = "none"

\* C14: close, fsync and lseek of a handle that is out of range or free
\* return -1 with EBADF in every state of the volume, and so do read and
\* write when remount_needed is clear: no backend call, no recovery, no
\* step that changes the table or the flag.  read and write called with
\* remount_needed set run the entry recovery before they look at the
\* handle: they return EIO when it fails and EBADF after it succeeded.
C14_BadHandle ==
    /\ []((call.op \in HandleOps /\ call.pc = "done" /\ BadHandle(call)) =>
            /\ call.ret = -1 /\ call.nback = 0
            /\ Names(file_table) = call.pre
            /\ (call.op \in {"close", "fsync", "lseek"} \/ ~call.entry_rn) =>
                  /\ errno = EBADF
                  /\ call.nreopen = 0 /\ call.e_rm = "none"
            /\ (call.op \in {"read", "write"} /\ call.entry_rn) =>
                  /\ call.e_rm \in {"ok", "failed"}
                  /\ call.e_rm = "failed" => errno = EIO /\ remount_needed
                  /\ call.e_rm = "ok" => errno = EBADF)
    /\ [][(call' # call /\ call'.op \in HandleOps /\ BadHandle(call')
             /\ (call'.op \in {"close", "fsync", "lseek"} \/ ~call'.entry_rn)) =>
            /\ file_table' = file_table
            /\ remount_needed' = remount_needed]_vars

\* fsync of a free slot has returned -1, EBADF on a volume flagged for
\* recovery, with a file open in another slot.
C14_Witness ==
    /\ call.op = "fsync" /\ call.pc = "done" /\ call.fd \in Slots
    /\ BadHandle(call) /\ call.entry_rn /\ remount_needed
    /\ call.ret = -1 /\ errno = EBADF
    /\ Occupied(file_table) # {}

\* The slots that held a file when the call of the frame c was made.
OccupiedAtEntry(c) == {i \in Slots : c.pre[i] # NoName}

\* C15: a close of an open handle leaves its slot free whatever f_close
\* returned, and an open that fails (no memory, f_open failed after the
\* retry, the seek of O_APPEND failed, the entry recovery failed; on ROMFS
\* the file is not in the image) leaves the occupied slots as they were
\* when it was called.
C15_SlotsFreed ==
    /\ (call.op = "close" /\ call.pc = "done" /\ ~BadHandle(call)) =>
          /\ file_table[call.fd] = NULL
          /\ Occupied(file_table) = OccupiedAtEntry(call) \ {call.fd}
    /\ (call.op = "open" /\ Failed(call)) =>
          /\ Occupied(file_table) = OccupiedAtEntry(call)
          /\ Names(file_table) = call.pre
    /\ (rcall.op = "close" /\ rcall.ret = 0) =>
          RomOccupied(file) = rcall.pre \ {rcall.fd}
    /\ (rcall.op = "open" /\ rcall.ret = -1) =>
          RomOccupied(file) = rcall.pre

\* A close whose f_close reported the disk error has returned -1 and the
\* slot is free; an open of a file that is not in the ROMFS image has
\* failed on a table with free records.
C15_Witness ==
    /\ call.op = "close" /\ call.pc = "done" /\ ~BadHandle(call)
    /\ call.res = FR_DISK_ERR /\ call.ret = -1
    /\ file_table[call.fd] = NULL
    /\ rcall.op = "open" /\ rcall.ret = -1 /\ rcall.pre # RomSlots

(***************************************************************************)
(* ROMFS under a caller that opens and closes files and directories.       *)
(***************************************************************************)
NextRomDir ==
    \/ RomOpen(RomFiles, {O_RDONLY})
    \/ RomClose
    \/ RomOpendir({"d", "x"})
    \/ RomClosedir

SpecRomDir == Init /\ [][NextRomDir]_vars

\* C16: a ROMFS opendir that fails (table full, path copy failed, directory
\* not in the image) leaves the directory table as it was before the call:
\* the records that are occupied after it are those that were occupied
\* before it.
C16_FailedOpendirKeepsTable ==
    (rcall.op = "opendir" /\ rcall.ret = -1) => DirOccupied(dir) = rcall.pre

\* Every record is held by the path of a directory that is not in the
\* image, for which opendir returned nullptr, and the opendir of a
\* directory of the image has failed with ENFILE.
C16_Leaked ==
    /\ rcall.op = "opendir" /\ rcall.path \in RomDirs /\ rcall.ret = -1
    /\ errno = ENFILE
    /\ \A i \in DirSlots : dir[i] \notin RomDirs \cup {NoName}

(***************************************************************************)
(* FATFS under a caller of the operations on paths and on handles, on a    *)
(* medium that can fail.                                                   *)
(***************************************************************************)
NextMedia ==
    \/ OpenBegin({"a"}, ReadOnlyFlags)
    \/ OpenAlloc
    \/ OpenFopen
    \/ OpenRetry
    \/ OpenFin
    \/ Close(Slots)
    \/ Fsync(Filenos)
    \/ Lseek(Filenos)
    \/ Unlink({"a"}, BackendResults)
    \/ Mkdir({"a"}, BackendResults)
    \/ Rename({"a", "b"}, BackendResults)
    \/ SetMtime({"a"})
    \/ CheckRemountReturn
    \/ RemountRetry
    \/ RemountReopen
    \/ RemountDone

SpecMedia == Init /\ [][NextMedia]_vars

\* The operations the statement names: those of MediaOps and the six others.
AllMediaOps == MediaOps \cup {"unlink", "mkdir", "rename", "fsync", "lseek", "set_mtime"}

\* C17: an operation among open, read, write, stat, opendir, unlink, mkdir,
\* rename, fsync, lseek and set_mtime that is entered with remount_needed
\* set runs the recovery before any backend call; when the recovery fails
\* the operation fails with EIO, has made no backend call, and
\* remount_needed stays set.
C17_RecoveryBeforeBackend ==
    (call.op \in AllMediaOps /\ call.entry_rn) =>
        /\ call.nback > 0 => call.e_rm = "ok"
        /\ call.pc = "done" => call.e_rm # "none"
        /\ (call.pc = "done" /\ call.e_rm = "failed") =>
              /\ Failed(call)
              /\ errno = EIO
              /\ call.nback = 0
              /\ remount_needed

\* An unlink entered with remount_needed set has made its backend call: no
\* recovery was attempted and the flag is still set.
C17_BackendWhileFlagged ==
    /\ call.op \in {"unlink", "mkdir", "rename", "fsync", "lseek", "set_mtime"}
    /\ call.pc = "done" /\ call.entry_rn
    /\ call.nback = 1 /\ call.e_rm = "none" /\ call.nrm = 0
    /\ remount_needed

(***************************************************************************)
(* FATFS under a caller that opens and closes files while a format is      *)
(* requested and the IO thread runs format_handler.                        *)
(***************************************************************************)
NextGuard ==
    \/ OpenBegin({"a"}, ReadOnlyFlags)
    \/ OpenAlloc
    \/ OpenFopen
    \/ OpenRetry
    \/ OpenFin
    \/ Close(Slots)
    \/ CheckRemountReturn
    \/ RemountRetry
    \/ RemountReopen
    \/ RemountDone
    \/ Format
    \/ WorkerNoop
    \/ WorkerCheck
    \/ WorkerStart
    \/ WorkerMkfs
    \/ GetFormatStatus

SpecGuard == Init /\ [][NextGuard]_vars

\* The slots whose entry differs between two tables.
Changed(tab1, tab2) == {i \in Slots : tab1[i] # tab2[i]}

\* C18: the operations and format_handler are serialized by sem.  sem is
\* held by an operation exactly while the operation is between its entry
\* and its return, and by format_handler exactly while it formats, so the
\* two are never inside together and nothing that takes sem starts while
\* one is inside.  While the reopening pass of remount_file_system is under
\* way, every step that changes the call, the table or the format job is a
\* step of that pass: the table changes in the one slot the pass visits,
\* no other operation looks up, allocates or frees a slot, and
\* format_handler does not get past its wait for sem.
C18_Serialized ==
    /\ [](InCall <=> sem = "op")
    /\ [](worker.pc = "mkfs" <=> sem = "worker")
    /\ [](~(InCall /\ worker.pc = "mkfs"))
    /\ [](sem # "free" =>
            /\ ~ENABLED Close(Slots)
            /\ ~ENABLED OpenBegin({"a"}, ReadOnlyFlags)
            /\ ~ENABLED Format
            /\ ~ENABLED WorkerStart)
    /\ [][call.pc = "reopen" =>
            /\ call'.op = call.op /\ call'.pre = call.pre
            /\ call'.pc \in {"reopen", call.rm_to}
            /\ call'.nreopen >= call.nreopen
            /\ sem' = "op"
            /\ worker'.pc \in {"idle", "lock"}
            /\ format_status' = format_status
            /\ file_table' # file_table =>
                  /\ call'.nreopen = call.nreopen + 1
                  /\ Changed(file_table, file_table') = {call'.rm_i - 1}
                  /\ Occupied(file_table') = Occupied(file_table)]_vars

\* The reopening pass has visited slot 0 and has slot 1 to visit, and
\* format_handler waits for sem.
C18_Witness ==
    /\ call.pc = "reopen" /\ call.rm_i = 1 /\ ReopenTodo = {1}
    /\ worker.pc = "lock" /\ format_status = PENDING
    /\ sem = "op"

(***************************************************************************)
(* ROMFS under threads that close, read and seek the same handles while    *)
(* files are opened.                                                       *)
(***************************************************************************)
NextRomThreads ==
    \/ RomOpen({"a"}, {O_RDONLY})
    \/ ThreadCloseBegin({0})
    \/ ThreadCloseLock
    \/ ThreadCloseFree
    \/ ThreadCloseNull
    \/ ThreadReadBegin({0}, {1})
    \/ ThreadReadClamp
    \/ ThreadReadCopy
    \/ ThreadLseekBegin({0})
    \/ ThreadLseekSet

SpecRomThreads == Init /\ [][NextRomThreads]_vars

\* C19: operations of ROMFS on the same handle do not race.  A read copies
\* from a buffer that is live; a close whose handle was closed by another
\* close since it was checked returns -1 with EBADF and releases nothing,
\* so that of the closes of one open handle exactly one returns 0 and the
\* buffer is released once.
C19_NoRace ==
    \A t \in Threads :
        /\ (thr[t].op = "read" /\ thr[t].pc \in {"read_copy", "done", "fault"}) =>
              thr[t].src \in {"none", "live"}
        /\ (thr[t].op = "close" /\ thr[t].pc = "done" /\ thr[t].src = "closed") =>
              /\ thr[t].ret = -1 /\ thr[t].err = EBADF
              /\ thr[t].data = NoName

\* Two closes of the handle have both returned 0, the second after the
\* first had freed the record, and a file opened in between lost its buffer
\* to the second.
C19_BothClosed ==
    \E t \in Threads, u \in Threads :
        /\ t # u
        /\ thr[t].op = "close" /\ thr[t].pc = "done" /\ thr[t].ret = 0
        /\ thr[u].op = "close" /\ thr[u].pc = "done" /\ thr[u].ret = 0
        /\ thr[t].fd = thr[u].fd
        /\ thr[u].src = "closed" /\ thr[u].data # NoName

(***************************************************************************)
(* FATFS under a caller that asks for the state of files and of the        *)
(* volume, on a medium that can fail.                                      *)
(***************************************************************************)
NextVolume ==
    \/ OpenBegin({"a"}, ReadOnlyFlags)
    \/ OpenAlloc
    \/ OpenFopen
    \/ OpenRetry
    \/ OpenFin
    \/ Close(Slots)
    \/ StatBegin({"a"})
    \/ StatBody
    \/ StatRetry
    \/ StatFin
    \/ Unlink({"a"}, BackendResults)
    \/ SetMtime({"a"})
    \/ DiskFreeBegin
    \/ DiskFreeBody
    \/ DiskSpaceBegin
    \/ DiskSpaceBody
    \/ CheckRemountReturn
    \/ RemountRetry
    \/ RemountReopen
    \/ RemountDone

SpecVolume == Init /\ [][NextVolume]_vars

\* The operation has returned and its last backend call had failed.
BackendFailed(c) == c.pc = "done" /\ c.nback > 0 /\ c.res # FR_OK

\* C20: an operation whose backend call failed returns its failure value
\* (-1, nullptr or false), never the result code of the backend, and errno
\* is what fatfs_to_errno gives for that code; disk_free and disk_space
\* return a negative value.
C20_NoNativeCode ==
    BackendFailed(call) =>
        /\ Failed(call)
        /\ errno = fatfs_to_errno(call.res)
        /\ call.op \in {"disk_free", "disk_space"} => call.ret < 0

\* disk_free has returned the result code of a failed f_getfree, a positive
\* number, with errno as it was before the call.
C20_NativeCode ==
    /\ call.op = "disk_free" /\ BackendFailed(call)
    /\ call.ret = call.res /\ call.ret > 0
    /\ errno = NoError

(***************************************************************************)
(* ROMFS under one caller of all its file and directory operations.        *)
(***************************************************************************)
NextRom ==
    \/ RomOpen(RomFiles, {O_RDONLY})
    \/ RomClose
    \/ RomRead(RomFilenos, Counts)
    \/ RomLseek(RomFilenos)
    \/ RomWrite(RomFilenos, {1})
    \/ RomUnlink
    \/ RomMkdir
    \/ RomRename
    \/ RomOpendir({"d"})
    \/ RomClosedir

SpecRom == Init /\ [][NextRom]_vars

ReadOnlyOps == {"write", "unlink", "mkdir", "rename"}

\* C21: on ROMFS a write, unlink, mkdir or rename returns -1 with errno
\* EROFS, whatever its arguments and whatever is open, and the file table
\* (the data, size and offset of every record) and the directory table are
\* as they were before the call.
C21_ReadOnly ==
    rcall.op \in ReadOnlyOps =>
        /\ rcall.ret = -1
        /\ errno = EROFS
        /\ file = rcall.pre
        /\ dir = rcall.predir

\* A write of an open handle whose offset is in the middle of the file has
\* been refused while a directory was open.
C21_Witness ==
    /\ rcall.op = "write" /\ rcall.fd \in RomOccupied(file)
    /\ rcall.count > 0
    /\ file[rcall.fd].ofs > 0 /\ file[rcall.fd].ofs < file[rcall.fd].size
    /\ DirOccupied(dir) # {}

(***************************************************************************)
(* FATFS under a caller that opens a file for appending, writes to it and  *)
(* closes it.                                                              *)
(***************************************************************************)
NextAppend ==
    \/ OpenBegin({"a"}, AppendFlags)
    \/ OpenAlloc
    \/ OpenFopen
    \/ OpenRetry
    \/ OpenFin
    \/ Close(Slots)
    \/ WriteBegin({0}, {1})
    \/ WriteChunk
    \/ WriteRetry
    \/ WriteEval
    \/ CheckRemountReturn
    \/ RemountRetry
    \/ RemountReopen
    \/ RemountDone

SpecAppend == Init /\ [][NextAppend]_vars

\* C22: an open with O_APPEND that succeeds returns a handle that is
\* attached and whose offset is the size the library reports for the file,
\* and a write that follows starts at that offset and moves it by what it
\* wrote, so that the first chunk lands after the existing data; when the
\* seek to the end fails the open returns -1 with the translated error, the
\* backend file has been closed (f_open, f_lseek, f_close: the backend calls
\* of the open beyond f_open are two) and the slots are as before the open.
C22_AppendAtEnd ==
    /\ [](  (call.op = "open" /\ call.append /\ call.pc = "done" /\ call.ret >= 0) =>
              /\ file_table[call.ret] # NULL
              /\ file_table[call.ret].fobj.fs
              /\ file_table[call.ret].fobj.fptr = call.size
              /\ call.res = FR_OK )
    /\ [](  (call.op = "open" /\ call.append /\ Failed(call)
             /\ call.nback = call.nretried + 3) =>
              /\ errno = fatfs_to_errno(call.res) /\ call.res # FR_OK
              /\ Names(file_table) = call.pre )
    /\ [][ (call.op = "open" /\ call.append /\ call.pc = "done" /\ call.ret >= 0
            /\ call'.op = "write" /\ call'.fd = call.ret)
           => /\ file_table' = file_table
              /\ call'.pc = "write_body" => file_table'[call'.fd].fobj.fptr = call.size ]_vars
    /\ [][ (call.op = "write" /\ call.pc = "write_body" /\ call'.nchunk = 1)
           => file_table'[call.fd].fobj.fptr
                 = file_table[call.fd].fobj.fptr + call'.size ]_vars

\* The file was 2 long when it was opened for appending, and one byte has
\* been written through the handle: the offset is 3.
C22_Witness ==
    /\ call.op = "write" /\ call.pc = "done" /\ call.ret = 1 /\ call.fd = 0
    /\ file_table[0] # NULL /\ file_table[0].fobj.fptr = 3
    /\ FA_OPEN_ALWAYS \in file_table[0].fobj.flag

(***************************************************************************)
(* FATFS under a caller of open, close, unlink, mkdir and rename; the      *)
(* backend can answer the last three with every result code.               *)
(***************************************************************************)
NextErrno ==
    \/ OpenBegin({"a"}, ReadOnlyFlags)
    \/ OpenAlloc
    \/ OpenFopen
    \/ OpenRetry
    \/ OpenFin
    \/ Close(Slots)
    \/ CheckRemountReturn
    \/ RemountRetry
    \/ RemountReopen
    \/ RemountDone
    \/ Unlink(Paths, FResults)
    \/ Mkdir(Paths, FResults)
    \/ Rename(Paths, FResults)

SpecErrno == Init /\ [][NextErrno]_vars

\* The error names fatfs_to_errno can give.
ErrnoNames ==
    {NoError, EIO, EPERM, EBUSY, ENOENT, EINVAL, EACCES, EEXIST, EROFS, ENXIO,
     ENOSPC, ENOMEM, EMFILE, EBADMSG}

\* The codes the switch lists.
KnownResults == FR_OK .. FR_INVALID_PARAMETER

\* C23: fatfs_to_errno gives an error name for every result code and
\* changes nothing but the errno it is assigned to: FR_OK gives 0, the
\* device error EIO, no-file and no-path ENOENT, invalid name EINVAL,
\* no-work-area ENOSPC, locked, timeout and not-ready EBUSY,
\* write-protected EROFS, too-many-open-files EMFILE, every code outside
\* the known set EBADMSG, and no code but FR_OK gives 0.
C23_Translation ==
    (call.op \in {"unlink", "mkdir", "rename"} /\ call.pc = "done") =>
        /\ errno \in ErrnoNames
        /\ call.res = FR_OK => errno = NoError
        /\ call.res = FR_DISK_ERR => errno = EIO
        /\ call.res \in {FR_NO_FILE, FR_NO_PATH} => errno = ENOENT
        /\ call.res = FR_INVALID_NAME => errno = EINVAL
        /\ call.res = FR_NOT_ENABLED => errno = ENOSPC
        /\ call.res \in {FR_LOCKED, FR_TIMEOUT, FR_NOT_READY} => errno = EBUSY
        /\ call.res = FR_WRITE_PROTECTED => errno = EROFS
        /\ call.res = FR_TOO_MANY_OPEN_FILES => errno = EMFILE
        /\ call.res \notin KnownResults => errno = EBADMSG
        /\ call.res # FR_OK => errno # NoError
        /\ Names(file_table) = call.pre /\ remount_needed = call.entry_rn
        /\ sem = "free"

\* The backend has answered a rename with a code the switch does not list.
C23_Witness ==
    /\ call.op = "rename" /\ call.pc = "done"
    /\ call.res > FR_INVALID_PARAMETER
    /\ errno = EBADMSG /\ call.ret = -1

\* The slot of the frame c holds a file whose FIL has no access bit: its
\* reopen failed in a recovery and it has not been closed since (an open
\* gives its FIL FA_READ or FA_WRITE).
Disconnected(c) ==
    /\ c.fd \in Slots
    /\ file_table[c.fd] # NULL
    /\ file_table[c.fd].fobj.flag \cap {FA_READ, FA_WRITE} = {}

\* C24: a slot whose reopen failed during a recovery stays occupied, and
\* until it is closed every read, write, fsync and lseek of the handle
\* returns -1 with an error in errno: none returns a count of bytes or
\* success.
C24_DisconnectedFails ==
    (call.op \in {"read", "write", "fsync", "lseek"} /\ call.pc = "done"
     /\ Disconnected(call)) =>
        /\ call.ret = -1
        /\ errno # NoError

\* A later recovery has attached the FIL again, opened with no access bit,
\* and an lseek or fsync of the handle has returned success.
C24_Reattached ==
    /\ call.op \in {"fsync", "lseek"} /\ call.pc = "done" /\ Disconnected(call)
    /\ file_table[call.fd].fobj.fs
    /\ call.res = FR_OK /\ call.ret >= 0

\* The slots the reopening pass of the frame c has visited, but for the
\* slot of an open that is still in progress, which is no handle yet.
Reopened(c) ==
    {i \in Slots : c.rm_out[i] # "none" /\ ~(c.op = "open" /\ c.fd = i)}

\* C25: when remount_file_system has returned true, every occupied slot
\* was reopened by the path stored in it with exactly the read and write
\* bits its handle was opened with, with FA_OPEN_ALWAYS if and only if
\* FA_WRITE is among them, and with no truncating or creating-anew bit,
\* also when the handle was opened with FA_CREATE_ALWAYS.
C25_ReopenModes ==
    call.rm = "ok" =>
        \A i \in Reopened(call) :
            /\ file_table[i].name = call.pre[i] /\ file_table[i].name \in Paths
            /\ call.rm_modes[i] \cap {FA_READ, FA_WRITE} = file_table[i].acc
            /\ FA_OPEN_ALWAYS \in call.rm_modes[i] <=> FA_WRITE \in file_table[i].acc
            /\ call.rm_modes[i] \subseteq {FA_READ, FA_WRITE, FA_OPEN_ALWAYS}

\* A handle opened for writing, whose reopen failed in an earlier recovery,
\* has been reopened with no access bit.
C25_BitsLost ==
    /\ call.rm = "ok"
    /\ \E i \in Reopened(call) :
          /\ FA_WRITE \in file_table[i].acc
          /\ call.rm_modes[i] = {}
          /\ call.rm_out[i] = "ok"

\* C26: for every open ROMFS handle, after any sequence of read and lseek,
\* 0 <= ofs <= size.  A read returns the smaller of count and size - ofs,
\* advances ofs by exactly that and touches no other record; with ofs at
\* size it returns 0 without copying.  An lseek returns the offset it set.
C26_RomOffsets ==
    /\ \A i \in RomOccupied(file) : 0 <= file[i].ofs /\ file[i].ofs <= file[i].size
    /\ (rcall.op = "read" /\ rcall.ret >= 0) =>
          LET p == rcall.pre[rcall.fd]
          IN  /\ rcall.ret = Min(rcall.count, p.size - p.ofs)
              /\ file = [rcall.pre EXCEPT ![rcall.fd].ofs = p.ofs + rcall.ret]
              /\ p.ofs = p.size => rcall.ret = 0
              /\ rcall.ret = 0 => ~rcall.copied
    /\ (rcall.op = "lseek" /\ rcall.ret >= 0) =>
          /\ rcall.ret = file[rcall.fd].ofs
          /\ \A i \in RomSlots : i # rcall.fd => file[i] = rcall.pre[i]

\* An lseek by -1 from SEEK_CUR at offset 0 (the sum wraps) has left the
\* handle at the end of a file that is not empty.
C26_Witness ==
    /\ rcall.op = "lseek" /\ rcall.whence = SEEK_CUR /\ rcall.count < 0
    /\ rcall.fd \in RomOccupied(file)
    /\ rcall.pre[rcall.fd].ofs + rcall.count < 0
    /\ file[rcall.fd].size > 0
    /\ file[rcall.fd].ofs = file[rcall.fd].size
====
